---- MODULE Spec2Model ----
(***************************************************************************)
(* Scheduling and mastery-tracking engine of the Emilia English practice   *)
(* app: performance model, option-level state machine, word option floor,  *)
(* review scheduler and the session handlers that drive them.              *)
(*                                                                         *)
(* Maps of the program (state.performanceMap, state.optionStateMap,        *)
(* state.wordOptionFloor, reviewSchedule) are functions whose DOMAIN is    *)
(* the set of keys present.  A tuple key `${wordId}::${formatId}` is the   *)
(* pair <<wordId, formatId>>.  An optional value (undefined or a record)   *)
(* is a set with at most one element.                                      *)
(***************************************************************************)
EXTENDS Integers, Sequences, FiniteSets, TLC

VARIABLES
  words,                  \* state.words
  formats,                \* state.formats
  history,                \* state.history
  performanceMap,         \* state.performanceMap
  optionStateMap,         \* state.optionStateMap
  wordOptionFloor,        \* state.wordOptionFloor
  reviewSchedule,         \* reviewSchedule (scheduleMastery.js)
  localStorage,           \* localStorage: the text stored under each key
  now,                    \* Date.now(), in milliseconds
  panelClicks,            \* clicks on control panel buttons so far
  returned,               \* outcome of the last call of a function under study
  sessionLength,          \* state.sessionLength
  sessionPlanLength,      \* state.sessionPlanLength
  queue,                  \* state.queue
  completedBaseExercises, \* state.completedBaseExercises
  currentExercise,        \* state.currentExercise (Undefined when null)
  transition,             \* state.transitionInProgress and the stage of
                          \* the timer chain of runTransition
  pendingNext,            \* pending 900 ms timers of scheduleNextExercise
  buttons,                \* enabled option buttons of dom.optionsArea
  visible                 \* screens that are not hidden

engineVars == <<history, performanceMap, optionStateMap, wordOptionFloor,
                reviewSchedule>>
sessionVars == <<sessionLength, sessionPlanLength, queue,
                 completedBaseExercises, currentExercise, transition,
                 pendingNext, buttons, visible>>
probeVars == <<panelClicks, returned>>
vars == <<words, formats, now, localStorage, probeVars, engineVars,
          sessionVars>>

----------------------------------------------------------------------------
(* Bounds of the model *)

\* longest attempt log, the later attempts being on one tuple
MaxTupleAttempts == 8
\* length of the attempt log up to which any tuple is attempted
MaxHistory == 3
\* number of one-day clock steps
MaxDays == 2
\* longest attempt log in the specifications of the session handlers
MaxSessionAttempts == 3
\* most 900 ms next-card timers pending at once
MaxPendingTimers == 2
\* longest attempt log in the specification with the control panel
MaxAppAttempts == 1
\* number of tuples of a catalog, in catalog order, that are practised
MaxPractised == 4
\* most ids in the distractorWordIds of a word
MaxPreferred == 3
\* largest option count passed to buildLetterOptions
MaxOptionCount == 5
\* longest attempt log of a page that was loaded from storage
MaxLoadedAttempts == 6
\* most incorrect answers of the learner in a session with retries
MaxMistakes == 4
\* most clicks on control panel buttons
MaxPanelClicks == 1
\* answers of a visit after which no further session is started
MaxRestartAttempts == 2

\* answers of a visit of correct answers after which no further session is
\* started
MaxBlockedAttempts == 6

----------------------------------------------------------------------------
(* config.js *)

DEFAULT_LENGTH == 10
MIN_LENGTH == 5
MAX_LENGTH == 20
MAX_NEW_WORDS_PER_SESSION == 3
MAX_REPEAT_PASSES == 2
MAX_OCCURRENCES_PER_WORD == 3

MIN_ATTEMPTS == 4
\* ACCURACY_THRESHOLD 0.85, as a percentage
ACCURACY_THRESHOLD_PCT == 85
RECENCY_WINDOW == 6

LETTER_ALPHABET ==
  {"a", "b", "c", "d", "e", "f", "g", "h", "i", "j", "k", "l", "m",
   "n", "o", "p", "q", "r", "s", "t", "u", "v", "w", "x", "y", "z"}

EXERCISE_FORMATS ==
  << [id |-> "translation_to_audio", promptType |-> "translation",
      answerType |-> "audio", requires |-> {"translation", "audio"}],
     [id |-> "audio_to_image", promptType |-> "audio",
      answerType |-> "image", requires |-> {"audio", "image"}],
     [id |-> "letter_to_image", promptType |-> "letter",
      answerType |-> "image", requires |-> {"image", "initialLetter"}],
     [id |-> "letter_to_audio", promptType |-> "letter",
      answerType |-> "audio", requires |-> {"audio", "initialLetter"}],
     [id |-> "image_to_letter", promptType |-> "image",
      answerType |-> "letter", requires |-> {"image", "initialLetter"}],
     [id |-> "audio_to_letter", promptType |-> "audio",
      answerType |-> "letter", requires |-> {"audio", "initialLetter"}] >>

DEPRECATED_FORMAT_IDS ==
  {"translation_to_text", "image_to_text", "audio_to_text",
   "text_to_translation", "text_to_image", "text_to_audio"}

\* REVIEW_INTERVALS = [0, 1, 3, 7, 14], in days
REVIEW_INTERVALS == <<0, 1, 3, 7, 14>>

\* days * 24 * 60 * 60 * 1000
MsPerDay == 24 * 60 * 60 * 1000

----------------------------------------------------------------------------
(* utils.js *)

Min(a, b) == IF a < b THEN a ELSE b
Max(a, b) == IF a > b THEN a ELSE b

clamp(value, min, max) == Min(Max(value, min), max)

\* shuffle(array): the new arrays it can return; the argument is not changed
shuffle(array) ==
  {[i \in DOMAIN array |-> array[order[i]]]
   : order \in {f \in [DOMAIN array -> DOMAIN array] :
                  \A a, b \in DOMAIN array : a # b => f[a] # f[b]}}

----
(* Map and optional-value helpers *)

Undefined == {}
Some(v) == {v}
The(opt) == CHOOSE v \in opt : TRUE

\* Map.prototype.get
MapGet(map, key) == IF key \in DOMAIN map THEN Some(map[key]) ELSE Undefined

\* the element of a one-element set
Only(S) == CHOOSE r \in S : TRUE

\* Map.prototype.set
MapSet(map, key, value) ==
  [k \in DOMAIN map \cup {key} |-> IF k = key THEN value ELSE map[k]]

\* Map.prototype.delete
MapDelete(map, key) == [k \in DOMAIN map \ {key} |-> map[k]]

EmptyMap == [k \in {} |-> 0]

----------------------------------------------------------------------------
(* Word catalog (data/words.json).  A word is                               *)
(* [id, hebrew, image, audio, initialLetter, distractorWordIds]; an asset   *)
(* flag says whether the attribute is present, initialLetter is "" when     *)
(* the word has none.                                                       *)

Word(id, hebrew, image, audio, initialLetter, distractorWordIds) ==
  [id |-> id, hebrew |-> hebrew, image |-> image, audio |-> audio,
   initialLetter |-> initialLetter, distractorWordIds |-> distractorWordIds]

\* two picture words with different initial letters
CatalogLetters ==
  << Word("ant", FALSE, TRUE, FALSE, "a", <<>>),
     Word("bee", FALSE, TRUE, FALSE, "b", <<>>) >>

\* picture words without sound or letter: they support no format
Cup == Word("cup", FALSE, TRUE, FALSE, "", <<>>)
Hat == Word("hat", FALSE, TRUE, FALSE, "", <<>>)
\* a translated word with sound: translation_to_audio only
Egg == Word("egg", TRUE, FALSE, TRUE, "", <<>>)

\* no valid (word, format) pair
CatalogNone == << Cup >>

\* one pair (audio_to_image) and two picture words to draw distractors from
CatalogSingle == << Word("sun", FALSE, TRUE, TRUE, "", <<>>), Cup, Hat >>

\* a one-format word and a three-format word: three active formats, four pairs
CatalogMixed == << Egg, Word("map", TRUE, FALSE, TRUE, "m", <<>>) >>

\* a two-format word and three one-format words: five pairs, and for every
\* pair two more words that can serve as its distractors
CatalogPlain ==
  << Word("dog", TRUE, TRUE, TRUE, "", <<>>),
     Word("sun", FALSE, TRUE, TRUE, "", <<>>), Egg,
     Word("owl", FALSE, TRUE, TRUE, "", <<>>) >>

\* seven one-format words
CatalogNew ==
  << Egg, Word("ink", TRUE, FALSE, TRUE, "", <<>>),
     Word("oak", TRUE, FALSE, TRUE, "", <<>>),
     Word("urn", TRUE, FALSE, TRUE, "", <<>>),
     Word("jam", TRUE, FALSE, TRUE, "", <<>>),
     Word("key", TRUE, FALSE, TRUE, "", <<>>),
     Word("yak", TRUE, FALSE, TRUE, "", <<>>) >>

\* the catalogs sessions are built from
QueueCatalogs ==
  {CatalogNone, CatalogSingle, CatalogMixed, CatalogPlain, CatalogNew}

\* ids a word can list as its preferred distractors: its own id, the other
\* words of the catalog and an id of no word
PreferredIds == {"dog", "ant", "bee", "cat", "elk", "gnu"}

\* a word with every attribute and the given preferred distractors, a word
\* with another letter, a word whose letter differs only in case, a picture
\* word without sound, and a word whose initialLetter is not a letter
CatalogDistractors(distractorWordIds) ==
  << Word("dog", TRUE, TRUE, TRUE, "d", distractorWordIds),
     Word("ant", FALSE, TRUE, TRUE, "a", <<>>),
     Word("bee", FALSE, TRUE, TRUE, "D", <<>>),
     Word("cat", FALSE, TRUE, FALSE, "c", <<>>),
     Word("elk", FALSE, TRUE, TRUE, "?", <<>>) >>

\* the catalogs distractors are picked from
DistractorCatalogs ==
  {CatalogDistractors(distractorWordIds) : distractorWordIds \in
     UNION {[1..n -> PreferredIds] : n \in 0..MaxPreferred}}

\* picture words with four different letters
CatalogAlphabet ==
  << Word("ant", FALSE, TRUE, FALSE, "a", <<>>),
     Word("bee", FALSE, TRUE, FALSE, "b", <<>>),
     Word("cat", FALSE, TRUE, FALSE, "c", <<>>),
     Word("dog", FALSE, TRUE, FALSE, "d", <<>>) >>

\* the catalogs letter options are built from: one, two and three letters
\* besides the letter of the target
LetterCatalogs == {CatalogLetters, CatalogDistractors(<<>>), CatalogAlphabet}

\* values of the session length slider: below the minimum, above the maximum
SliderValues == {MIN_LENGTH - 4, MAX_LENGTH + 5}

WordIds == {words[i].id : i \in DOMAIN words}
FormatIds == {formats[i].id : i \in DOMAIN formats}
FormatById(formatId) ==
  CHOOSE f \in {formats[i] : i \in DOMAIN formats} : f.id = formatId

----------------------------------------------------------------------------
(* progress.js *)

Results == {"correct", "incorrect"}

\* lastAttempt of a record that was never stamped
NoTime == -1

buildPerformanceKey(wordId, formatId) == <<wordId, formatId>>

EmptyStats ==
  [attempts |-> 0, correct |-> 0, incorrect |-> 0, streak |-> 0,
   lastAttempt |-> NoTime, recent |-> <<>>]

updateRecentResults(recent, result) ==
  LET copy == Append(recent, result)
  IN IF Len(copy) > RECENCY_WINDOW THEN Tail(copy) ELSE copy

\* mutant: mastery decided on lifetime accuracy
isTupleMastered_lifetime(stats) ==
  IF stats = Undefined THEN FALSE
  ELSE LET s == The(stats)
       IN /\ s.attempts >= MIN_ATTEMPTS
          /\ s.correct * 100 >= ACCURACY_THRESHOLD_PCT * s.attempts

isTupleMastered(stats) ==
  IF stats = Undefined THEN FALSE
  ELSE LET s == The(stats)
           recent == s.recent
           windowSize == Min(RECENCY_WINDOW, Len(recent))
           window == SubSeq(recent, Len(recent) - windowSize + 1, Len(recent))
           hits == Len(SelectSeq(window, LAMBDA r : r = "correct"))
       IN /\ windowSize # 0
          /\ hits * 100 >= ACCURACY_THRESHOLD_PCT * windowSize
          /\ s.attempts >= MIN_ATTEMPTS

\* mutant: the streak is not restarted on a sign flip
RECURSIVE buildPerformanceMapFrom_streak(_, _)
buildPerformanceMapFrom_streak(map, historyEntries) ==
  IF historyEntries = <<>> THEN map
  ELSE LET entry == Head(historyEntries)
           key == buildPerformanceKey(entry.wordId, entry.formatId)
           existing == IF key \in DOMAIN map THEN map[key] ELSE EmptyStats
           counted ==
             IF entry.result = "correct"
             THEN [existing EXCEPT !.attempts = @ + 1,
                                   !.correct = @ + 1,
                                   !.streak = @ + 1]
             ELSE [existing EXCEPT !.attempts = @ + 1,
                                   !.incorrect = @ + 1,
                                   !.streak = @ - 1]
           updated ==
             [counted EXCEPT !.lastAttempt = entry.timestamp,
                             !.recent = updateRecentResults(@, entry.result)]
       IN buildPerformanceMapFrom_streak(MapSet(map, key, updated),
                                         Tail(historyEntries))

RECURSIVE buildPerformanceMapFrom(_, _)
buildPerformanceMapFrom(map, historyEntries) ==
  IF historyEntries = <<>> THEN map
  ELSE LET entry == Head(historyEntries)
           key == buildPerformanceKey(entry.wordId, entry.formatId)
           existing == IF key \in DOMAIN map THEN map[key] ELSE EmptyStats
           counted ==
             IF entry.result = "correct"
             THEN [existing EXCEPT !.attempts = @ + 1,
                                   !.correct = @ + 1,
                                   !.streak = Max(@ + 1, 1)]
             ELSE [existing EXCEPT !.attempts = @ + 1,
                                   !.incorrect = @ + 1,
                                   !.streak = Min(@ - 1, -1)]
           updated ==
             [counted EXCEPT !.lastAttempt = entry.timestamp,
                             !.recent = updateRecentResults(@, entry.result)]
       IN IF entry.wordId = "" \/ entry.formatId = ""
          THEN buildPerformanceMapFrom(map, Tail(historyEntries))
          ELSE buildPerformanceMapFrom(MapSet(map, key, updated),
                                       Tail(historyEntries))

buildPerformanceMap(historyEntries) ==
  buildPerformanceMapFrom(EmptyMap, historyEntries)

\* mutant: the translation a format requires is not looked for
wordSupportsFormat_noTranslation(word, format) ==
  /\ ("image" \in format.requires => word.image)
  /\ ("audio" \in format.requires => word.audio)
  /\ ("initialLetter" \in format.requires => word.initialLetter # "")

wordSupportsFormat(word, format) ==
  /\ ("translation" \in format.requires => word.hebrew)
  /\ ("image" \in format.requires => word.image)
  /\ ("audio" \in format.requires => word.audio)
  /\ ("initialLetter" \in format.requires => word.initialLetter # "")

createDefaultOptionState == [level |-> 1, successRun |-> 0, failureRun |-> 0]

\* mutant: promotion by one level on every run of two, level not clamped
applyOptionStateTransition_unclamped(optionState, wasCorrect) ==
  IF wasCorrect
  THEN LET s == [optionState EXCEPT !.failureRun = 0, !.successRun = @ + 1]
       IN IF s.level = 1 \/ s.successRun >= 2
          THEN [s EXCEPT !.level = @ + 1, !.successRun = 0]
          ELSE s
  ELSE LET s == [optionState EXCEPT !.successRun = 0, !.failureRun = @ + 1]
       IN IF s.level >= 3 /\ s.failureRun >= 2
          THEN [s EXCEPT !.level = 2, !.failureRun = 0]
          ELSE [s EXCEPT !.failureRun = Min(@, 2)]

\* mutant: a promotion keeps the success run
applyOptionStateTransition_keepRun(optionState, wasCorrect) ==
  IF wasCorrect
  THEN LET s == [optionState EXCEPT !.failureRun = 0, !.successRun = @ + 1]
       IN IF s.level = 1 /\ s.successRun >= 1
          THEN [s EXCEPT !.level = 2]
          ELSE IF s.level \in {2, 3} /\ s.successRun >= 2
          THEN [s EXCEPT !.level = @ + 1, !.successRun = 0]
          ELSE IF s.level = 4
          THEN [s EXCEPT !.successRun = Min(@, 2)]
          ELSE s
  ELSE LET s == [optionState EXCEPT !.successRun = 0, !.failureRun = @ + 1]
       IN IF s.level >= 3 /\ s.failureRun >= 2
          THEN [s EXCEPT !.level = 2, !.failureRun = 0]
          ELSE [s EXCEPT !.failureRun = Min(@, 2)]

\* mutant: two failures demote by one level from any level above 1
applyOptionStateTransition_demoteAny(optionState, wasCorrect) ==
  IF wasCorrect
  THEN LET s == [optionState EXCEPT !.failureRun = 0, !.successRun = @ + 1]
       IN IF s.level = 1 /\ s.successRun >= 1
          THEN [s EXCEPT !.level = 2, !.successRun = 0]
          ELSE IF s.level \in {2, 3} /\ s.successRun >= 2
          THEN [s EXCEPT !.level = @ + 1, !.successRun = 0]
          ELSE IF s.level = 4
          THEN [s EXCEPT !.successRun = Min(@, 2)]
          ELSE s
  ELSE LET s == [optionState EXCEPT !.successRun = 0, !.failureRun = @ + 1]
       IN IF s.level >= 2 /\ s.failureRun >= 2
          THEN [s EXCEPT !.level = @ - 1, !.failureRun = 0]
          ELSE [s EXCEPT !.failureRun = Min(@, 2)]

\* mutant: level 2 is left after one correct answer
applyOptionStateTransition_oneCorrect(optionState, wasCorrect) ==
  LET stepped ==
        IF wasCorrect
        THEN LET s == [optionState EXCEPT !.failureRun = 0,
                                          !.successRun = @ + 1]
             IN IF s.level = 1 /\ s.successRun >= 1
                THEN [s EXCEPT !.level = 2, !.successRun = 0]
                ELSE IF s.level = 2 /\ s.successRun >= 1
                THEN [s EXCEPT !.level = 3, !.successRun = 0]
                ELSE IF s.level = 3 /\ s.successRun >= 2
                THEN [s EXCEPT !.level = 4, !.successRun = 0]
                ELSE IF s.level = 4
                THEN [s EXCEPT !.successRun = Min(@, 2)]
                ELSE s
        ELSE LET s == [optionState EXCEPT !.successRun = 0,
                                          !.failureRun = @ + 1]
             IN IF s.level >= 3 /\ s.failureRun >= 2
                THEN [s EXCEPT !.level = 2, !.failureRun = 0]
                ELSE [s EXCEPT !.failureRun = Min(@, 2)]
  IN [stepped EXCEPT !.level = clamp(@, 1, 4)]

applyOptionStateTransition(optionState, wasCorrect) ==
  LET stepped ==
        IF wasCorrect
        THEN LET s == [optionState EXCEPT !.failureRun = 0,
                                          !.successRun = @ + 1]
             IN IF s.level = 1 /\ s.successRun >= 1
                THEN [s EXCEPT !.level = 2, !.successRun = 0]
                ELSE IF s.level = 2 /\ s.successRun >= 2
                THEN [s EXCEPT !.level = 3, !.successRun = 0]
                ELSE IF s.level = 3 /\ s.successRun >= 2
                THEN [s EXCEPT !.level = 4, !.successRun = 0]
                ELSE IF s.level = 4
                THEN [s EXCEPT !.successRun = Min(@, 2)]
                ELSE s
        ELSE LET s == [optionState EXCEPT !.successRun = 0,
                                          !.failureRun = @ + 1]
             IN IF s.level >= 3 /\ s.failureRun >= 2
                THEN [s EXCEPT !.level = 2, !.failureRun = 0]
                ELSE [s EXCEPT !.failureRun = Min(@, 2)]
  IN [stepped EXCEPT !.level = clamp(@, 1, 4)]

\* mutant: the floor of the word is ignored
getOptionCountForTuple_noFloor(wordId, formatId) ==
  LET key == buildPerformanceKey(wordId, formatId)
      entry == MapGet(optionStateMap, key)
      baseLevel == IF entry # Undefined THEN The(entry).level ELSE 1
  IN clamp(baseLevel, 1, 4)

getOptionCountForTuple(wordId, formatId) ==
  LET key == buildPerformanceKey(wordId, formatId)
      entry == MapGet(optionStateMap, key)
      baseLevel == IF entry # Undefined THEN The(entry).level ELSE 1
      floor == IF wordId \in DOMAIN wordOptionFloor
               THEN wordOptionFloor[wordId] ELSE 1
  IN clamp(Max(baseLevel, floor), 1, 4)

----------------------------------------------------------------------------
(* scheduleMastery.js *)

\* mutant: a tuple that is not mastered keeps its interval
scheduleMasteryReview_noRegress(wordId, formatId, mastered) ==
  LET key == <<wordId, formatId>>
      entry == IF key \in DOMAIN reviewSchedule THEN reviewSchedule[key]
               ELSE [intervalIndex |-> 0, nextReview |-> now]
      index == IF mastered
               THEN clamp(entry.intervalIndex + 1, 0, Len(REVIEW_INTERVALS) - 1)
               ELSE entry.intervalIndex
      days == REVIEW_INTERVALS[index + 1]
  IN reviewSchedule' =
       MapSet(reviewSchedule, key,
              [intervalIndex |-> index, nextReview |-> now + days * MsPerDay])

scheduleMasteryReview(wordId, formatId, mastered) ==
  LET key == <<wordId, formatId>>
      entry == IF key \in DOMAIN reviewSchedule THEN reviewSchedule[key]
               ELSE [intervalIndex |-> 0, nextReview |-> now]
      index == IF mastered
               THEN clamp(entry.intervalIndex + 1, 0, Len(REVIEW_INTERVALS) - 1)
               ELSE clamp(entry.intervalIndex - 1, 0, Len(REVIEW_INTERVALS) - 1)
      \* REVIEW_INTERVALS is indexed from 0 in the program
      days == REVIEW_INTERVALS[index + 1]
  IN reviewSchedule' =
       MapSet(reviewSchedule, key,
              [intervalIndex |-> index, nextReview |-> now + days * MsPerDay])

shouldScheduleMastered(wordId, formatId) ==
  LET key == <<wordId, formatId>>
  IN IF key \notin DOMAIN reviewSchedule THEN TRUE
     ELSE now >= reviewSchedule[key].nextReview

----------------------------------------------------------------------------
(* progress.js, operations on the shared state *)

\* mutant: an incorrect answer is not counted as incorrect
updatePerformanceMapWithEntry_miscount(entry) ==
  LET key == buildPerformanceKey(entry.wordId, entry.formatId)
      existing == IF key \in DOMAIN performanceMap THEN performanceMap[key]
                  ELSE EmptyStats
      counted ==
        IF entry.result = "correct"
        THEN [existing EXCEPT !.attempts = @ + 1,
                              !.correct = @ + 1,
                              !.streak = Max(@ + 1, 1)]
        ELSE [existing EXCEPT !.attempts = @ + 1,
                              !.streak = Min(@ - 1, -1)]
      updated ==
        [counted EXCEPT !.lastAttempt = entry.timestamp,
                        !.recent = updateRecentResults(@, entry.result)]
  IN /\ performanceMap' = MapSet(performanceMap, key, updated)
     /\ scheduleMasteryReview(entry.wordId, entry.formatId,
                              isTupleMastered(Some(updated)))

\* mutant: the streak is counted on without a restart at a sign flip
updatePerformanceMapWithEntry_runOn(entry) ==
  LET key == buildPerformanceKey(entry.wordId, entry.formatId)
      existing == IF key \in DOMAIN performanceMap THEN performanceMap[key]
                  ELSE EmptyStats
      counted ==
        IF entry.result = "correct"
        THEN [existing EXCEPT !.attempts = @ + 1,
                              !.correct = @ + 1,
                              !.streak = @ + 1]
        ELSE [existing EXCEPT !.attempts = @ + 1,
                              !.incorrect = @ + 1,
                              !.streak = @ - 1]
      updated ==
        [counted EXCEPT !.lastAttempt = entry.timestamp,
                        !.recent = updateRecentResults(@, entry.result)]
  IN /\ performanceMap' = MapSet(performanceMap, key, updated)
     /\ scheduleMasteryReview(entry.wordId, entry.formatId,
                              isTupleMastered(Some(updated)))

updatePerformanceMapWithEntry(entry) ==
  LET key == buildPerformanceKey(entry.wordId, entry.formatId)
      existing == IF key \in DOMAIN performanceMap THEN performanceMap[key]
                  ELSE EmptyStats
      counted ==
        IF entry.result = "correct"
        THEN [existing EXCEPT !.attempts = @ + 1,
                              !.correct = @ + 1,
                              !.streak = Max(@ + 1, 1)]
        ELSE [existing EXCEPT !.attempts = @ + 1,
                              !.incorrect = @ + 1,
                              !.streak = Min(@ - 1, -1)]
      updated ==
        [counted EXCEPT !.lastAttempt = entry.timestamp,
                        !.recent = updateRecentResults(@, entry.result)]
  IN /\ performanceMap' = MapSet(performanceMap, key, updated)
     /\ scheduleMasteryReview(entry.wordId, entry.formatId,
                              isTupleMastered(Some(updated)))

updateOptionStateWithEntry(entry) ==
  IF entry.wordId = "" \/ entry.formatId = ""
  THEN UNCHANGED optionStateMap
  ELSE LET key == buildPerformanceKey(entry.wordId, entry.formatId)
           optionState == IF key \in DOMAIN optionStateMap
                          THEN optionStateMap[key]
                          ELSE createDefaultOptionState
       IN optionStateMap' =
            MapSet(optionStateMap, key,
                   applyOptionStateTransition(optionState,
                                              entry.result = "correct"))

----------------------------------------------------------------------------
(* letters.js *)

toLowerCase(ch) ==
  CASE ch = "A" -> "a" [] ch = "B" -> "b" [] ch = "C" -> "c"
    [] ch = "D" -> "d" [] OTHER -> ch

\* "" stands for null
normalizeLetter(value) ==
  LET letter == toLowerCase(value)
  IN IF letter \in LETTER_ALPHABET THEN letter ELSE ""

\* getAvailableLetters: the letters of the words, each once
getAvailableLetters ==
  {normalizeLetter(words[i].initialLetter) : i \in DOMAIN words} \ {""}

----------------------------------------------------------------------------
(* queue.js *)

computeAvailableFormats(wordList) ==
  SelectSeq(EXERCISE_FORMATS,
            LAMBDA format :
              /\ format.id \notin DEPRECATED_FORMAT_IDS
              /\ \E i \in DOMAIN wordList :
                    wordSupportsFormat(wordList[i], format))

wordSupportsAnswer(word, format) ==
  IF format.answerType = "translation" THEN word.hebrew
  ELSE IF format.answerType = "image" THEN word.image
  ELSE IF format.answerType = "audio" THEN word.audio
  ELSE IF format.answerType = "letter" THEN word.initialLetter # ""
  ELSE TRUE

\* the ids that tryAdd of pickDistractorIds accepts for a word and format
distractorCandidates(word, format) ==
  {words[i].id : i \in
     {i \in DOMAIN words :
        /\ words[i].id # word.id
        /\ wordSupportsAnswer(words[i], format)
        /\ format.promptType = "letter" =>
             /\ normalizeLetter(words[i].initialLetter) # ""
             /\ normalizeLetter(words[i].initialLetter) #
                  normalizeLetter(word.initialLetter)}}

\* mutant: as many accepted ids as desired are not enough
pickDistractorIdsThrows_tooStrict(word, format, desiredCount) ==
  /\ desiredCount > 0
  /\ Cardinality(distractorCandidates(word, format)) <= desiredCount

\* pickDistractorIds throws when fewer ids than desired pass tryAdd
pickDistractorIdsThrows(word, format, desiredCount) ==
  /\ desiredCount > 0
  /\ Cardinality(distractorCandidates(word, format)) < desiredCount

\* the ids of a sequence in the order of their first occurrence: the
\* iteration order of a Set the ids are added to
RECURSIVE uniqueIds(_)
uniqueIds(ids) ==
  IF ids = <<>> THEN <<>>
  ELSE LET rest == uniqueIds(SubSeq(ids, 1, Len(ids) - 1))
           last == ids[Len(ids)]
       IN IF \E k \in DOMAIN rest : rest[k] = last THEN rest
          ELSE Append(rest, last)

\* mutant: the answer modality of the candidate is not looked at
tryAdd_anyModality(result, id, word, format) ==
  Only({IF (\E k \in DOMAIN acc : acc[k] = id) \/ id = word.id THEN acc
        ELSE IF id \notin WordIds THEN acc
        ELSE LET candidateWord ==
                   words[CHOOSE i \in DOMAIN words :
                           /\ words[i].id = id
                           /\ \A k \in 1..(i - 1) : words[k].id # id]
                 targetLetter == normalizeLetter(word.initialLetter)
                 candidateLetter == normalizeLetter(candidateWord.initialLetter)
             IN IF /\ format.promptType = "letter"
                   /\ \/ candidateLetter = ""
                      \/ candidateLetter = targetLetter
                THEN acc
                ELSE Append(acc, id)
        : acc \in {result}})

\* tryAdd of pickDistractorIds: the result after the id is offered
tryAdd(result, id, word, format) ==
  Only({IF (\E k \in DOMAIN acc : acc[k] = id) \/ id = word.id THEN acc
        ELSE IF id \notin WordIds THEN acc
        ELSE LET candidateWord ==
                   words[CHOOSE i \in DOMAIN words :
                           /\ words[i].id = id
                           /\ \A k \in 1..(i - 1) : words[k].id # id]
                 targetLetter == normalizeLetter(word.initialLetter)
                 candidateLetter == normalizeLetter(candidateWord.initialLetter)
             IN IF ~wordSupportsAnswer(candidateWord, format) THEN acc
                ELSE IF /\ format.promptType = "letter"
                        /\ \/ candidateLetter = ""
                           \/ candidateLetter = targetLetter
                THEN acc
                ELSE Append(acc, id)
        : acc \in {result}})

\* availableIds.forEach(tryAdd)
RECURSIVE addAll(_, _, _, _)
addAll(result, ids, word, format) ==
  IF ids = <<>> THEN result
  ELSE addAll(tryAdd(result, Head(ids), word, format), Tail(ids), word, format)

\* the loop of pickDistractorIds over the fallback ids
RECURSIVE addUntil(_, _, _, _, _)
addUntil(result, ids, word, format, desiredCount) ==
  IF ids = <<>> \/ Len(result) >= desiredCount THEN result
  ELSE addUntil(tryAdd(result, Head(ids), word, format), Tail(ids), word,
                format, desiredCount)

\* mutant: the fallback ids are tried before the preferred ids
pickDistractorIds_fallbackFirst(word, format, desiredCount) ==
  IF desiredCount <= 0 THEN [threw |-> FALSE, ids |-> <<>>]
  ELSE LET availableIds ==
             uniqueIds(SelectSeq(word.distractorWordIds,
                                 LAMBDA id : id # word.id))
           fallbackIds ==
             uniqueIds(SelectSeq([i \in DOMAIN words |-> words[i].id],
                                 LAMBDA id : id # word.id))
       IN Only({IF Len(result) < desiredCount
                THEN [threw |-> TRUE, ids |-> <<>>]
                ELSE [threw |-> FALSE, ids |-> SubSeq(result, 1, desiredCount)]
                : result \in
                    {IF Len(fallback) < desiredCount
                     THEN addAll(fallback, availableIds, word, format)
                     ELSE fallback
                     : fallback \in
                         {addUntil(<<>>, fallbackIds, word, format,
                                   desiredCount)}}})

\* pickDistractorIds: it throws, or returns the ids of the distractors
pickDistractorIds(word, format, desiredCount) ==
  IF desiredCount <= 0 THEN [threw |-> FALSE, ids |-> <<>>]
  ELSE LET availableIds ==
             uniqueIds(SelectSeq(word.distractorWordIds,
                                 LAMBDA id : id # word.id))
           fallbackIds ==
             uniqueIds(SelectSeq([i \in DOMAIN words |-> words[i].id],
                                 LAMBDA id : id # word.id))
       IN Only({IF Len(result) < desiredCount
                THEN [threw |-> TRUE, ids |-> <<>>]
                ELSE [threw |-> FALSE, ids |-> SubSeq(result, 1, desiredCount)]
                : result \in
                    {IF Len(preferred) < desiredCount
                     THEN addUntil(preferred, fallbackIds, word, format,
                                   desiredCount)
                     ELSE preferred
                     : preferred \in
                         {addAll(<<>>, availableIds, word, format)}}})

\* the outcomes a call of pickDistractorIds can have: the shuffled copy of
\* the fallback ids is dropped, the loop runs over the fallback ids themselves
pickDistractorIdsOutcomes(word, format, desiredCount) ==
  {pickDistractorIds(word, format, desiredCount)
   : shuffled \in shuffle(SelectSeq([i \in DOMAIN words |-> words[i].id],
                                    LAMBDA id : id # word.id))}

\* buildOptions throws
buildOptionsThrows(word, format, optionCount) ==
  IF format.answerType = "letter"
  THEN normalizeLetter(word.initialLetter) = ""
  ELSE pickDistractorIdsThrows(word, format, Max(optionCount - 1, 0))

\* options.length of the options that buildOptions returns
buildOptionsLength(word, format, optionCount) ==
  IF format.answerType = "letter"
  THEN clamp(optionCount, 1, 4)
  ELSE 1 + Max(optionCount - 1, 0)

\* the first n entries of a shuffled array of the distinct items
Draws(items, n) ==
  {draw \in [1..n -> items] : \A a, b \in 1..n : a # b => draw[a] # draw[b]}

\* mutant: the letter of the target is left among the available letters
letterDistractors_withTarget(targetLetter) ==
  UNION {{drawn \o filler
          : filler \in Draws((LETTER_ALPHABET \ {targetLetter})
                               \ {drawn[k] : k \in DOMAIN drawn},
                             3 - Len(drawn))}
         : drawn \in Draws(getAvailableLetters, Min(3, Cardinality(getAvailableLetters)))}

\* the three distractor letters of buildLetterOptions: up to three of the
\* shuffled available letters, the rest from the shuffled letters of the
\* alphabet not yet drawn; the pool always holds the letters still needed,
\* so the closing loop of the function adds nothing
letterDistractors(targetLetter) ==
  UNION {{drawn \o filler
          : filler \in Draws((LETTER_ALPHABET \ {targetLetter})
                               \ {drawn[k] : k \in DOMAIN drawn},
                             3 - Len(drawn))}
         : drawn \in Draws((getAvailableLetters \ {targetLetter}), Min(3, Cardinality((getAvailableLetters \ {targetLetter}))))}

\* buildLetterOptions for a word with a valid letter: the options it can
\* return
buildLetterOptions(word, optionCount) ==
  {[k \in DOMAIN letters |->
      [optionId |-> <<"letter-", letters[k]>>,
       letterValue |-> letters[k],
       isCorrect |-> letters[k] = normalizeLetter(word.initialLetter)]]
   : letters \in
       UNION {shuffle(<<normalizeLetter(word.initialLetter)>>
                      \o SubSeq(distractors, 1, clamp(optionCount, 1, 4) - 1))
              : distractors \in
                  letterDistractors(normalizeLetter(word.initialLetter))}}

\* mutant: every option is flagged as the correct one
transformWordToOption_flagged(word, format, isCorrect) ==
  [optionId |-> word.id,
   isCorrect |-> TRUE,
   imageSrc |-> format.answerType = "image" /\ word.image,
   audioSrc |-> format.answerType = "audio" /\ word.audio]

\* transformWordToOption: the option of a word; imageSrc and audioSrc tell
\* whether the option carries the picture or the sound of the word
transformWordToOption(word, format, isCorrect) ==
  [optionId |-> word.id,
   isCorrect |-> isCorrect,
   imageSrc |-> format.answerType = "image" /\ word.image,
   audioSrc |-> format.answerType = "audio" /\ word.audio]

\* new Map(state.words.map((w) => [w.id, w])).get(id) for the id of a word:
\* the last word with the id
wordMapGet(id) ==
  words[CHOOSE i \in DOMAIN words :
          /\ words[i].id = id
          /\ \A k \in (i + 1)..Len(words) : words[k].id # id]

\* buildOptions: it throws, or returns one of the shuffled arrays of options
buildOptions(word, format, optionCount) ==
  IF format.answerType = "letter"
  THEN IF normalizeLetter(word.initialLetter) = ""
       THEN {[threw |-> TRUE, options |-> <<>>]}
       ELSE {[threw |-> FALSE, options |-> options]
             : options \in buildLetterOptions(word, optionCount)}
  ELSE UNION
         {IF picked.threw THEN {[threw |-> TRUE, options |-> <<>>]}
          ELSE {[threw |-> FALSE, options |-> options]
                : options \in
                    shuffle([k \in 1..(1 + Len(picked.ids)) |->
                               LET optionWord ==
                                     wordMapGet((<<word.id>> \o picked.ids)[k])
                               IN transformWordToOption(
                                    optionWord, format,
                                    optionWord.id = word.id)])}
          : picked \in {pickDistractorIds(word, format,
                                          Max(optionCount - 1, 0))}}

createExerciseThrows(word, format) ==
  buildOptionsThrows(word, format,
                     getOptionCountForTuple(word.id, format.id))

createExercise(word, format) ==
  [wordId |-> word.id, formatId |-> format.id,
   optionCount |->
     buildOptionsLength(word, format,
                        getOptionCountForTuple(word.id, format.id)),
   attempts |-> 0, hintUsed |-> FALSE, retryCount |-> 0, isRetry |-> FALSE]

\* allExercises: the valid (word, format) pairs in catalog order, with the
\* priority score kept as the fraction num/den (-1/1 for an unseen pair)
allExercises ==
  LET pairs == [n \in 1..(Len(words) * Len(formats)) |->
                  <<((n - 1) \div Len(formats)) + 1,
                    ((n - 1) % Len(formats)) + 1>>]
      valid == SelectSeq(pairs,
                 LAMBDA p :
                   /\ formats[p[2]].id \notin DEPRECATED_FORMAT_IDS
                   /\ wordSupportsFormat(words[p[1]], formats[p[2]]))
  IN [n \in DOMAIN valid |->
        LET word == words[valid[n][1]]
            format == formats[valid[n][2]]
            key == <<word.id, format.id>>
            stats == IF key \in DOMAIN performanceMap
                     THEN performanceMap[key] ELSE EmptyStats
        IN [word |-> word, format |-> format,
            num |-> IF stats.attempts = 0 THEN -1 ELSE stats.correct,
            den |-> IF stats.attempts = 0 THEN 1 ELSE stats.attempts]]

\* a.priorityScore - b.priorityScore < 0
scoreLess(a, b) == a.num * b.den < b.num * a.den

\* the orders Array.prototype.sort can leave the candidates in: ascending
\* priority score, candidates of equal score in any order
RECURSIVE sortedOrders(_, _)
sortedOrders(candidates, left) ==
  IF left = {} THEN {<<>>}
  ELSE LET least == {i \in left :
                       \A j \in left : ~scoreLess(candidates[j], candidates[i])}
       IN UNION {{<<candidates[i]>> \o rest :
                    rest \in sortedOrders(candidates, left \ {i})} : i \in least}

\* mutant: the random draw also decides between an unseen pair and a pair
\* that was never answered correctly
compareFn_drawAtZero(a, b) ==
  IF a.num * b.den = b.num * a.den \/ (a.num <= 0 /\ b.num <= 0)
  THEN {-1, 0, 1}
  ELSE IF scoreLess(a, b) THEN {-1} ELSE {1}

\* the sign of what the comparator of the sort can return for (a, b):
\* Math.random() - 0.5 for equal scores, the difference of the scores
\* otherwise
compareFn(a, b) ==
  IF a.num * b.den = b.num * a.den THEN {-1, 0, 1}
  ELSE IF scoreLess(a, b) THEN {-1} ELSE {1}

\* Array.prototype.reverse on the first runLength elements
reverseRun(array, runLength) ==
  [n \in DOMAIN array |->
     IF n <= runLength THEN array[runLength + 1 - n] ELSE array[n]]

\* the lengths the run at the start of the array can be found to have, when
\* the elements before index are in it
RECURSIVE runLengths(_, _, _)
runLengths(array, index, isDescending) ==
  IF index > Len(array) THEN {index - 1}
  ELSE UNION
         {IF (isDescending /\ order >= 0) \/ (~isDescending /\ order < 0)
          THEN {index - 1}
          ELSE runLengths(array, index + 1, isDescending)
          : order \in compareFn(array[index], array[index - 1])}

\* the sort finds the run at the start of an array of two or more elements
\* and reverses it when the comparator called it descending: the arrays and
\* run lengths it can go on with
countAndMakeRun(array) ==
  UNION
    {{<<IF order < 0 THEN reverseRun(array, runLength) ELSE array, runLength>>
      : runLength \in runLengths(array, 3, order < 0)}
     : order \in compareFn(array[2], array[1])}

\* the places a binary search with the comparator can find for the pivot
\* among the elements left .. right - 1
RECURSIVE insertionPoints(_, _, _, _)
insertionPoints(array, pivot, left, right) ==
  IF left >= right THEN {left}
  ELSE LET mid == left + ((right - left) \div 2)
       IN UNION
            {IF order < 0 THEN insertionPoints(array, pivot, left, mid)
             ELSE insertionPoints(array, pivot, mid + 1, right)
             : order \in compareFn(pivot, array[mid])}

\* the element at start moved to index point <= start
moveTo(array, start, point) ==
  [n \in DOMAIN array |->
     IF n < point \/ n > start THEN array[n]
     ELSE IF n = point THEN array[start] ELSE array[n - 1]]

\* binary insertion of the elements from start on into the sorted run before
\* them
RECURSIVE binaryInsertionSort(_, _)
binaryInsertionSort(array, start) ==
  IF start > Len(array) THEN {array}
  ELSE UNION
         {binaryInsertionSort(moveTo(array, start, point), start + 1)
          : point \in insertionPoints(array, array[start], 1, start)}

\* allExercises.sort(comparator) on a short array: the initial run is found,
\* the other elements are inserted by binary search; every outcome of the
\* random draws of the comparator gives one of the arrays
sortOutcomes(array) ==
  IF Len(array) < 2 THEN {array}
  ELSE UNION {binaryInsertionSort(run[1], run[2] + 1)
              : run \in countAndMakeRun(array)}

buildWordProgressMap ==
  [wordId \in WordIds |->
     LET word == CHOOSE w \in {words[i] : i \in DOMAIN words} : w.id = wordId
         supported == {j \in DOMAIN formats :
                         wordSupportsFormat(word, formats[j])}
         attempted == {j \in supported :
                         /\ <<wordId, formats[j].id>> \in DOMAIN performanceMap
                         /\ performanceMap[<<wordId, formats[j].id>>].attempts # 0}
         mastered == {j \in attempted :
                        isTupleMastered(
                          Some(performanceMap[<<wordId, formats[j].id>>]))}
     IN [totalFormats |-> Cardinality(supported),
         attemptedFormats |-> Cardinality(attempted),
         pendingFormats |-> Cardinality(attempted \ mastered),
         masteredFormats |-> Cardinality(mastered),
         freshFormats |-> Cardinality(supported \ attempted)]]

\* the buckets of buildSessionQueue: words by aggregated progress
wordBuckets ==
  LET wordProgress == buildWordProgressMap
      counted == {i \in DOMAIN words :
                    wordProgress[words[i].id].totalFormats # 0}
      dueMastered(word) ==
        Cardinality(
          {j \in DOMAIN formats :
             /\ formats[j].id \notin DEPRECATED_FORMAT_IDS
             /\ wordSupportsFormat(word, formats[j])
             /\ <<word.id, formats[j].id>> \in DOMAIN performanceMap
             /\ isTupleMastered(Some(performanceMap[<<word.id, formats[j].id>>]))
             /\ shouldScheduleMastered(word.id, formats[j].id)})
      isNewWord(word) == wordProgress[word.id].attemptedFormats = 0
      isUnmastered(word) ==
        /\ ~isNewWord(word)
        /\ \/ wordProgress[word.id].pendingFormats > 0
           \/ wordProgress[word.id].freshFormats > 0
  IN [newSet |-> {words[i].id : i \in {i \in counted : isNewWord(words[i])}},
      unmasteredSet |->
        {words[i].id : i \in {i \in counted : isUnmastered(words[i])}},
      masteredSet |->
        {words[i].id : i \in
           {i \in counted : /\ ~isNewWord(words[i])
                            /\ dueMastered(words[i]) > 0}}]

\* the running selection of buildSessionQueue
EmptySelection ==
  [selected |-> <<>>, wordUsage |-> EmptyMap, newWordsIntroduced |-> {}]

\* mutant: the per-word usage cap is never applied
tryAddCandidate_noUsageCap(selection, candidate, isNew, overrideLimit, length) ==
  Only({LET wordId == candidate.word.id
            usage == IF wordId \in DOMAIN acc.wordUsage
                     THEN acc.wordUsage[wordId] ELSE 0
        IN IF Len(acc.selected) >= length THEN acc
           ELSE IF /\ isNew
                   /\ wordId \notin acc.newWordsIntroduced
                   /\ Cardinality(acc.newWordsIntroduced)
                        >= MAX_NEW_WORDS_PER_SESSION
           THEN acc
           ELSE [selected |-> Append(acc.selected, candidate),
                 wordUsage |-> MapSet(acc.wordUsage, wordId, usage + 1),
                 newWordsIntroduced |->
                   IF isNew THEN acc.newWordsIntroduced \cup {wordId}
                   ELSE acc.newWordsIntroduced]
        : acc \in {selection}})

\* mutant: the new-word cap is lifted together with the per-word cap
tryAddCandidate_newUncapped(selection, candidate, isNew, overrideLimit, length) ==
  Only({LET wordId == candidate.word.id
            usage == IF wordId \in DOMAIN acc.wordUsage
                     THEN acc.wordUsage[wordId] ELSE 0
        IN IF Len(acc.selected) >= length THEN acc
           ELSE IF /\ isNew /\ ~overrideLimit
                   /\ wordId \notin acc.newWordsIntroduced
                   /\ Cardinality(acc.newWordsIntroduced)
                        >= MAX_NEW_WORDS_PER_SESSION
           THEN acc
           ELSE IF ~overrideLimit /\ usage >= MAX_OCCURRENCES_PER_WORD THEN acc
           ELSE [selected |-> Append(acc.selected, candidate),
                 wordUsage |-> MapSet(acc.wordUsage, wordId, usage + 1),
                 newWordsIntroduced |->
                   IF isNew THEN acc.newWordsIntroduced \cup {wordId}
                   ELSE acc.newWordsIntroduced]
        : acc \in {selection}})

tryAddCandidate(selection, candidate, isNew, overrideLimit, length) ==
  Only({LET wordId == candidate.word.id
            usage == IF wordId \in DOMAIN acc.wordUsage
                     THEN acc.wordUsage[wordId] ELSE 0
        IN IF Len(acc.selected) >= length THEN acc
           ELSE IF /\ isNew
                   /\ wordId \notin acc.newWordsIntroduced
                   /\ Cardinality(acc.newWordsIntroduced)
                        >= MAX_NEW_WORDS_PER_SESSION
           THEN acc
           ELSE IF ~overrideLimit /\ usage >= MAX_OCCURRENCES_PER_WORD THEN acc
           ELSE [selected |-> Append(acc.selected, candidate),
                 wordUsage |-> MapSet(acc.wordUsage, wordId, usage + 1),
                 newWordsIntroduced |->
                   IF isNew THEN acc.newWordsIntroduced \cup {wordId}
                   ELSE acc.newWordsIntroduced]
        : acc \in {selection}})

\* one pass of takeFromSet over the sorted candidates
RECURSIVE takePass(_, _, _, _, _, _)
takePass(selection, candidates, wordSet, isNew, overrideLimit, length) ==
  Only({IF candidates = <<>> \/ Len(acc.selected) >= length THEN acc
        ELSE IF Head(candidates).word.id \notin wordSet
        THEN takePass(acc, Tail(candidates), wordSet, isNew, overrideLimit,
                      length)
        ELSE takePass(tryAddCandidate(acc, Head(candidates), isNew,
                                      overrideLimit, length),
                      Tail(candidates), wordSet, isNew, overrideLimit, length)
        : acc \in {selection}})

RECURSIVE takePasses(_, _, _, _, _, _, _)
takePasses(selection, passes, candidates, wordSet, isNew, override, length) ==
  IF passes = 0 THEN selection
  ELSE Only({IF Len(next.selected) >= length \/ next = acc THEN next
             ELSE takePasses(next, passes - 1, candidates, wordSet, isNew,
                             override, length)
             : <<acc, next>> \in
                 {<<acc, takePass(acc, candidates, wordSet, isNew,
                                  override, length)>>
                  : acc \in {selection}}})

takeFromSet(selection, candidates, wordSet, isNew, overrideLimit, length) ==
  IF wordSet = {} THEN selection
  ELSE takePasses(selection,
                  IF overrideLimit THEN 1 ELSE IF isNew THEN 1
                  ELSE MAX_REPEAT_PASSES,
                  candidates, wordSet, isNew, overrideLimit, length)

\* mutant: the target length is not limited by the number of pairs
targetLength_unlimited(pairCount) ==
  clamp(sessionLength, MIN_LENGTH, MAX_LENGTH)

\* the target length of buildSessionQueue
targetLength(pairCount) ==
  clamp(sessionLength, MIN_LENGTH, Min(MAX_LENGTH, pairCount))

\* mutant: the new bucket is taken whatever the unmastered bucket gave
takeCapped_newToo(sortedExercises, buckets, length) ==
  Only({IF Len(a2.selected) < length
        THEN takeFromSet(a2, sortedExercises, buckets.masteredSet,
                         FALSE, FALSE, length)
        ELSE a2
        : a2 \in
            {takeFromSet(a1, sortedExercises, buckets.newSet, TRUE, FALSE,
                         length)
             : a1 \in {takeFromSet(EmptySelection, sortedExercises,
                                   buckets.unmasteredSet, FALSE, FALSE,
                                   length)}}})

\* buildSessionQueue, selection within the per-word caps
takeCapped(sortedExercises, buckets, length) ==
  IF buckets.unmasteredSet # {}
  THEN Only({IF Len(a2.selected) < length
             THEN takeFromSet(a2, sortedExercises, buckets.masteredSet,
                              FALSE, FALSE, length)
             ELSE a2
             : a2 \in
                 {IF Len(a1.selected) = 0 /\ buckets.newSet # {}
                  THEN takeFromSet(a1, sortedExercises, buckets.newSet,
                                   TRUE, FALSE, length)
                  ELSE a1
                  : a1 \in {takeFromSet(EmptySelection, sortedExercises,
                                        buckets.unmasteredSet, FALSE, FALSE,
                                        length)}}})
  ELSE Only({IF Len(a1.selected) < length
             THEN takeFromSet(a1, sortedExercises, buckets.masteredSet,
                              FALSE, FALSE, length)
             ELSE a1
             : a1 \in {takeFromSet(EmptySelection, sortedExercises,
                                   buckets.newSet, TRUE, FALSE, length)}})

\* buildSessionQueue, selection that overrides the per-word caps
takeOverriding(selection, sortedExercises, buckets, length) ==
  Only({IF Len(o2.selected) < length
        THEN takeFromSet(o2, sortedExercises, buckets.masteredSet,
                         FALSE, TRUE, length)
        ELSE o2
        : o2 \in
            {IF Len(o1.selected) < length
             THEN takeFromSet(o1, sortedExercises, buckets.newSet,
                              TRUE, TRUE, length)
             ELSE o1
             : o1 \in
                 {IF Len(acc.selected) < length
                  THEN takeFromSet(acc, sortedExercises,
                                   buckets.unmasteredSet, FALSE, TRUE, length)
                  ELSE acc
                  : acc \in {selection}}}})

\* mutant: an empty selection is returned as it is
takeFallback_none(selection, sortedExercises, length) == selection

\* buildSessionQueue, the fallback of an empty selection
takeFallback(selection, sortedExercises, length) ==
  Only({IF Len(acc.selected) = 0
        THEN takePass(acc, sortedExercises, WordIds, FALSE, TRUE, length)
        ELSE acc
        : acc \in {selection}})

\* the candidates buildSessionQueue selects from the sorted candidates, in
\* order (before createExercise is applied to each)
selectCandidates(sortedExercises, buckets, length) ==
  Only({SubSeq(final.selected, 1, Min(length, Len(final.selected)))
        : final \in
            {takeFallback(
               takeOverriding(takeCapped(sortedExercises, buckets, length),
                              sortedExercises, buckets, length),
               sortedExercises, length)}})

\* the sessions buildSessionQueue can return; it throws when there is no
\* valid pair, or when createExercise throws for a selected candidate
buildSessionQueue ==
  UNION
    {IF Len(all) = 0 THEN {}
     ELSE {[n \in DOMAIN selected |->
              createExercise(selected[n].word, selected[n].format)]
           : selected \in
               {c \in {selectCandidates(sorted, buckets, length)
                       : sorted \in sortedOrders(all, DOMAIN all)}
                  : \A n \in DOMAIN c :
                      ~createExerciseThrows(c[n].word, c[n].format)}}
     : <<all, buckets, length>> \in
         {<<allExercises, wordBuckets, targetLength(Len(allExercises))>>}}

----------------------------------------------------------------------------
(* storage.js and the persist functions of the other modules *)

STORAGE_KEYS ==
  [HISTORY |-> "emiliaEnglishProgressLog",
   SETTINGS |-> "emiliaEnglishSettings",
   WORD_OPTION_FLOOR |-> "emiliaEnglishWordOptionFloor"]

REVIEW_STORAGE_KEY == "emiliaEnglishMasterySchedule"

\* JSON values: an array of items, or an object with its fields as a map
JSONArray(items) == [type |-> "array", items |-> items, fields |-> EmptyMap]
JSONObject(fields) == [type |-> "object", items |-> <<>>, fields |-> fields]

\* a stored text is the text of a JSON value, or a text JSON.parse throws on
JSONstringify(json) == [parses |-> TRUE, json |-> json]
Unparsable == [parses |-> FALSE, json |-> JSONObject(EmptyMap)]

\* persistHistory, persistWordOptionFloor, persistReviewSchedule and
\* saveSessionLength: the keys written by a step hold the text of the state
\* the step leaves
persist(keys) ==
  localStorage' =
    [key \in DOMAIN localStorage \cup keys |->
       IF key \notin keys THEN localStorage[key]
       ELSE IF key = STORAGE_KEYS.HISTORY
       THEN JSONstringify(JSONArray(history'))
       ELSE IF key = STORAGE_KEYS.WORD_OPTION_FLOOR
       THEN JSONstringify(JSONObject(wordOptionFloor'))
       ELSE IF key = REVIEW_STORAGE_KEY
       THEN JSONstringify(JSONObject(reviewSchedule'))
       ELSE JSONstringify(JSONObject([sessionLength |-> sessionLength']))]

\* promoteWordFloor persists the floors when it has raised one
floorKeys ==
  IF wordOptionFloor' # wordOptionFloor
  THEN {STORAGE_KEYS.WORD_OPTION_FLOOR} ELSE {}

\* loadSessionLength(storage): Undefined stands for null
loadSessionLength(storage) ==
  IF STORAGE_KEYS.SETTINGS \notin DOMAIN storage THEN Undefined
  ELSE LET stored == storage[STORAGE_KEYS.SETTINGS]
       IN IF ~stored.parses THEN Undefined
          ELSE IF "sessionLength" \in DOMAIN stored.json.fields
          THEN Some(stored.json.fields.sessionLength)
          ELSE Undefined

\* loadWordOptionFloor(storage): state.wordOptionFloor after the call
loadWordOptionFloor(storage) ==
  IF STORAGE_KEYS.WORD_OPTION_FLOOR \notin DOMAIN storage THEN EmptyMap
  ELSE LET stored == storage[STORAGE_KEYS.WORD_OPTION_FLOOR]
       IN IF ~stored.parses THEN EmptyMap
          ELSE [wordId \in DOMAIN stored.json.fields |->
                  IF stored.json.fields[wordId] = 0 THEN 1
                  ELSE stored.json.fields[wordId]]

\* state.history.forEach((entry) => updateOptionStateWithEntry(entry))
RECURSIVE replayOptionStates(_, _)
replayOptionStates(map, historyEntries) ==
  IF historyEntries = <<>> THEN map
  ELSE LET entry == Head(historyEntries)
           key == buildPerformanceKey(entry.wordId, entry.formatId)
           optionState == IF key \in DOMAIN map THEN map[key]
                          ELSE createDefaultOptionState
       IN replayOptionStates(
            IF entry.wordId = "" \/ entry.formatId = "" THEN map
            ELSE MapSet(map, key,
                        applyOptionStateTransition(optionState,
                                                   entry.result = "correct")),
            Tail(historyEntries))

\* loadHistory(storage): the log and the maps of the state after the call
loadHistory(storage) ==
  IF STORAGE_KEYS.HISTORY \notin DOMAIN storage
  THEN [history |-> <<>>, performanceMap |-> EmptyMap,
        optionStateMap |-> EmptyMap]
  ELSE LET stored == storage[STORAGE_KEYS.HISTORY]
           entries == IF stored.parses /\ stored.json.type = "array"
                      THEN stored.json.items ELSE <<>>
           kept == SelectSeq(entries,
                             LAMBDA entry :
                               entry.formatId \notin DEPRECATED_FORMAT_IDS)
       IN [history |-> kept,
           performanceMap |-> buildPerformanceMap(kept),
           optionStateMap |-> replayOptionStates(EmptyMap, kept)]

\* loadReviewSchedule(storage, time): reviewSchedule after the call on the
\* empty map of a page that has just been opened
loadReviewSchedule(storage, time) ==
  IF REVIEW_STORAGE_KEY \notin DOMAIN storage THEN EmptyMap
  ELSE LET stored == storage[REVIEW_STORAGE_KEY]
       IN IF ~stored.parses THEN EmptyMap
          ELSE [key \in DOMAIN stored.json.fields |->
                  [intervalIndex |-> stored.json.fields[key].intervalIndex,
                   nextReview |->
                     IF stored.json.fields[key].nextReview = 0 THEN time
                     ELSE stored.json.fields[key].nextReview]]

\* a null item of a stored array
NullEntry == [timestamp |-> 0, wordId |-> "", formatId |-> "", result |-> ""]

\* mutant: JSON.parse is outside the try block
loadHistoryThrows_uncaught(storage) ==
  /\ STORAGE_KEYS.HISTORY \in DOMAIN storage
  /\ \E stored \in {storage[STORAGE_KEYS.HISTORY]} :
       \/ ~stored.parses
       \/ /\ stored.json.type = "array"
          /\ \E i \in DOMAIN stored.json.items : stored.json.items[i] = NullEntry

\* loadHistory(storage) throws: JSON.parse is inside the try block, the
\* replay of the parsed entries is not, and it reads the fields of each entry
loadHistoryThrows(storage) ==
  /\ STORAGE_KEYS.HISTORY \in DOMAIN storage
  /\ \E stored \in {storage[STORAGE_KEYS.HISTORY]} :
       /\ stored.parses
       /\ stored.json.type = "array"
       /\ \E i \in DOMAIN stored.json.items : stored.json.items[i] = NullEntry

\* applyStoredSettings(storage): state.sessionLength after the call on the
\* state of a page that has just been opened
applyStoredSettings(storage) ==
  LET stored == loadSessionLength(storage)
  IN IF stored = Undefined \/ The(stored) = 0 THEN DEFAULT_LENGTH
     ELSE Min(Max(The(stored), MIN_LENGTH), MAX_LENGTH)

----------------------------------------------------------------------------
(* app.js *)

\* recordAttempt: log the attempt and update every derived map
recordAttempt(wordId, formatId, isCorrect) ==
  LET entry == [timestamp |-> now, wordId |-> wordId, formatId |-> formatId,
                result |-> IF isCorrect THEN "correct" ELSE "incorrect"]
  IN /\ history' = Append(history, entry)
     /\ updatePerformanceMapWithEntry(entry)
     /\ updateOptionStateWithEntry(entry)

\* no option button is enabled
NoButtons == [correct |-> FALSE, wrong |-> 0]

\* switchScreen(from, to)
switchScreen(from, to) == visible' = (visible \ {from}) \cup {to}

\* mutant: the floor is set even when it is already above minLevel
promoteWordFloor_overwrite(wordId, minLevel) ==
  MapSet(wordOptionFloor, wordId, minLevel)

\* promoteWordFloor(wordId, minLevel): the floor after the call
promoteWordFloor(wordId, minLevel) ==
  LET current == IF wordId \in DOMAIN wordOptionFloor
                 THEN wordOptionFloor[wordId] ELSE 1
  IN IF current >= minLevel THEN wordOptionFloor
     ELSE MapSet(wordOptionFloor, wordId, minLevel)

\* mutant: a single-option card does not promote its word
handleSingleOptionPromotion_never(exercise) == wordOptionFloor

\* handleSingleOptionPromotion(exercise): the floor after the call
handleSingleOptionPromotion(exercise) ==
  IF exercise.optionCount > 1 THEN wordOptionFloor
  ELSE promoteWordFloor(exercise.wordId, 2)

\* the render callback of renderNextExercise on a non-empty queue `from`
render(from) ==
  LET exercise == [Head(from) EXCEPT !.attempts = 0, !.hintUsed = FALSE]
  IN /\ currentExercise' = Some(exercise)
     /\ queue' = Tail(from)
     /\ buttons' = [correct |-> TRUE, wrong |-> exercise.optionCount - 1]
     /\ wordOptionFloor' = handleSingleOptionPromotion(exercise)

\* showSessionSummary
showSessionSummary ==
  /\ currentExercise' = Undefined
  /\ switchScreen("session", "summary")

\* handleStartSession / handleRestart after the screen they are clicked on:
\* build the queue and render the first card without a transition
startSession(from) ==
  \E built \in buildSessionQueue :
    /\ sessionPlanLength' = Len(built)
    /\ completedBaseExercises' = 0
    /\ switchScreen(from, "session")
    /\ render(built)
    /\ UNCHANGED <<probeVars, words, formats, now, history, performanceMap,
                   optionStateMap, reviewSchedule, sessionLength, transition,
                   pendingNext>>
    /\ persist(floorKeys)

\* click on the Start button
handleStartSession ==
  /\ "start" \in visible
  /\ Len(words) # 0
  /\ startSession("start")

\* click on the Restart button of the summary screen
handleRestart ==
  /\ "summary" \in visible
  /\ startSession("summary")

\* click on the Back Home button of the summary screen
returnHome ==
  /\ "summary" \in visible
  /\ switchScreen("summary", "start")
  /\ UNCHANGED <<probeVars, words, formats, now, localStorage, engineVars,
                 sessionLength, sessionPlanLength, queue,
                 completedBaseExercises, currentExercise, transition,
                 pendingNext, buttons>>

\* click on the End Session button
endSessionEarly ==
  /\ "session" \in visible
  /\ currentExercise # Undefined
  /\ queue' = <<>>
  /\ showSessionSummary
  /\ UNCHANGED <<probeVars, words, formats, now, localStorage, engineVars,
                 sessionLength, sessionPlanLength, completedBaseExercises,
                 transition, pendingNext, buttons>>

\* mutant: the retry is put at the end of the queue
queueExerciseRetry_atEnd(exercise) ==
  LET retryExercise == [exercise EXCEPT !.attempts = 0, !.hintUsed = FALSE,
                                        !.retryCount = @ + 1,
                                        !.isRetry = TRUE]
      insertIndex == Len(queue)
  IN SubSeq(queue, 1, insertIndex) \o <<retryExercise>>
       \o SubSeq(queue, insertIndex + 1, Len(queue))

\* queueExerciseRetry(exercise): the queue after the call
queueExerciseRetry(exercise) ==
  LET retryExercise == [exercise EXCEPT !.attempts = 0, !.hintUsed = FALSE,
                                        !.retryCount = @ + 1,
                                        !.isRetry = TRUE]
      insertIndex == Min(2, Len(queue))
  IN SubSeq(queue, 1, insertIndex) \o <<retryExercise>>
       \o SubSeq(queue, insertIndex + 1, Len(queue))

\* scheduleNextExercise(exercise)
scheduleNextExercise(exercise) ==
  /\ completedBaseExercises' =
       IF ~exercise.isRetry
       THEN Min(completedBaseExercises + 1, sessionPlanLength)
       ELSE completedBaseExercises
  /\ pendingNext' = pendingNext + 1

\* click on an enabled option button of the current card
handleAnswerSelection(isCorrect) ==
  /\ "session" \in visible
  /\ currentExercise # Undefined
  /\ transition = "idle"
  /\ IF isCorrect THEN buttons.correct ELSE buttons.wrong > 0
  /\ LET shown == The(currentExercise)
         exercise == [shown EXCEPT !.attempts = @ + 1]
         hint == ~isCorrect /\ exercise.attempts >= 2 /\ ~exercise.hintUsed
     IN /\ recordAttempt(exercise.wordId, exercise.formatId, isCorrect)
        /\ IF isCorrect
           THEN /\ currentExercise' = Some(exercise)
                /\ buttons' = NoButtons
                /\ queue' = queue
                /\ scheduleNextExercise(exercise)
           ELSE IF hint
           THEN /\ currentExercise' = Some([exercise EXCEPT !.hintUsed = TRUE])
                /\ buttons' = NoButtons
                /\ queue' = queueExerciseRetry(
                              [exercise EXCEPT !.hintUsed = TRUE])
                /\ scheduleNextExercise([exercise EXCEPT !.hintUsed = TRUE])
           ELSE /\ currentExercise' = Some(exercise)
                /\ buttons' = [correct |-> TRUE,
                               wrong |-> shown.optionCount - 2]
                /\ UNCHANGED <<queue, completedBaseExercises, pendingNext>>
  /\ UNCHANGED <<probeVars, words, formats, now, wordOptionFloor, sessionLength,
                 sessionPlanLength, transition, visible>>
  /\ persist({STORAGE_KEYS.HISTORY, REVIEW_STORAGE_KEY})

\* a 900 ms timer of scheduleNextExercise fires: renderNextExercise()
nextExerciseTimer ==
  /\ pendingNext > 0
  /\ pendingNext' = pendingNext - 1
  /\ IF queue = <<>>
     THEN /\ showSessionSummary
          /\ UNCHANGED <<queue, transition>>
     ELSE \* runTransition(render)
          /\ transition' = IF transition = "idle" THEN "fadeOut" ELSE transition
          /\ UNCHANGED <<queue, currentExercise, visible>>
  /\ UNCHANGED <<probeVars, words, formats, now, localStorage, engineVars,
                 sessionLength, sessionPlanLength, completedBaseExercises,
                 buttons>>

\* the timers of runTransition up to the render callback fire.  On an empty
\* queue the callback throws after currentExercise is set to undefined, and
\* the rest of the chain, which clears transitionInProgress, never runs.
transitionRender ==
  /\ transition = "fadeOut"
  /\ IF queue = <<>>
     THEN /\ currentExercise' = Undefined
          /\ transition' = "stuck"
          /\ UNCHANGED <<queue, buttons, wordOptionFloor>>
     ELSE /\ render(queue)
          /\ transition' = "fadeIn"
  /\ UNCHANGED <<probeVars, words, formats, now, history, performanceMap, optionStateMap,
                 reviewSchedule, sessionLength, sessionPlanLength,
                 completedBaseExercises, pendingNext, visible>>
  /\ persist(floorKeys)

\* the last timers of runTransition fire: transitionInProgress = false
transitionEnd ==
  /\ transition = "fadeIn"
  /\ transition' = "idle"
  /\ UNCHANGED <<probeVars, words, formats, now, localStorage, engineVars,
                 sessionLength, sessionPlanLength, queue,
                 completedBaseExercises, currentExercise, pendingNext,
                 buttons, visible>>

----------------------------------------------------------------------------
(* progress.js, control panel operations *)

\* Math.ceil(attempts * ACCURACY_THRESHOLD)
ceilOfThreshold(attempts) == (attempts * ACCURACY_THRESHOLD_PCT + 99) \div 100

\* mutant: the attempts of the record are left as they are
masteredStats_keepAttempts(stats) ==
  LET attempts == stats.attempts
      correct == Max(stats.correct, ceilOfThreshold(attempts))
  IN [stats EXCEPT !.attempts = attempts, !.correct = correct,
                   !.incorrect = Max(0, attempts - correct)]

\* the record markWordAsMastered leaves for a tuple
masteredStats(stats) ==
  LET attempts == Max(stats.attempts, MIN_ATTEMPTS)
      correct == Max(stats.correct, ceilOfThreshold(attempts))
  IN [stats EXCEPT !.attempts = attempts, !.correct = correct,
                   !.incorrect = Max(0, attempts - correct)]

\* click on Mark as Learned
markWordAsMastered(wordId) ==
  LET keys == {<<wordId, formatId>> : formatId \in FormatIds}
  IN /\ performanceMap' =
          [key \in DOMAIN performanceMap \cup keys |->
             IF key \in keys
             THEN masteredStats(IF key \in DOMAIN performanceMap
                                THEN performanceMap[key] ELSE EmptyStats)
             ELSE performanceMap[key]]
     /\ optionStateMap' =
          [key \in DOMAIN optionStateMap \cup keys |->
             IF key \in keys
             THEN [createDefaultOptionState EXCEPT !.level = 4]
             ELSE optionStateMap[key]]
     /\ wordOptionFloor' = MapSet(wordOptionFloor, wordId, 4)
     /\ UNCHANGED <<returned, words, formats, now, history, reviewSchedule,
                    sessionVars>>
     /\ persist({STORAGE_KEYS.WORD_OPTION_FLOOR})

\* mutant: the whole log is wiped
resetWordProgress_wipeLog(wordId) ==
  LET keys == {<<wordId, formatId>> : formatId \in FormatIds}
  IN /\ history' = <<>>
     /\ performanceMap' =
          [key \in DOMAIN performanceMap \ keys |-> performanceMap[key]]
     /\ optionStateMap' =
          [key \in DOMAIN optionStateMap \ keys |-> optionStateMap[key]]
     /\ wordOptionFloor' = MapSet(wordOptionFloor, wordId, 1)
     /\ UNCHANGED <<returned, words, formats, now, reviewSchedule, sessionVars>>
     /\ persist({STORAGE_KEYS.HISTORY, STORAGE_KEYS.WORD_OPTION_FLOOR})

\* click on Reset Progress
resetWordProgress(wordId) ==
  LET keys == {<<wordId, formatId>> : formatId \in FormatIds}
  IN /\ history' = SelectSeq(history, LAMBDA entry : entry.wordId # wordId)
     /\ performanceMap' =
          [key \in DOMAIN performanceMap \ keys |-> performanceMap[key]]
     /\ optionStateMap' =
          [key \in DOMAIN optionStateMap \ keys |-> optionStateMap[key]]
     /\ wordOptionFloor' = MapSet(wordOptionFloor, wordId, 1)
     /\ UNCHANGED <<returned, words, formats, now, reviewSchedule, sessionVars>>
     /\ persist({STORAGE_KEYS.HISTORY, STORAGE_KEYS.WORD_OPTION_FLOOR})

----------------------------------------------------------------------------
(* Specifications *)

\* no function under study has been called
NoCall == [op |-> "none"]

\* init(): nothing stored, words loaded, formats computed
InitWith(catalog) ==
  /\ words = catalog
  /\ formats = computeAvailableFormats(catalog)
  /\ history = <<>>
  /\ performanceMap = EmptyMap
  /\ optionStateMap = EmptyMap
  /\ wordOptionFloor = EmptyMap
  /\ reviewSchedule = EmptyMap
  /\ localStorage = EmptyMap
  /\ now = 0
  /\ sessionLength = DEFAULT_LENGTH
  /\ sessionPlanLength = DEFAULT_LENGTH
  /\ queue = <<>>
  /\ completedBaseExercises = 0
  /\ currentExercise = Undefined
  /\ transition = "idle"
  /\ pendingNext = 0
  /\ buttons = NoButtons
  /\ panelClicks = 0
  /\ returned = NoCall
  /\ visible = {"start"}

Init == InitWith(CatalogLetters)

\* the clock advances by one day
Tick ==
  /\ now < MaxDays * MsPerDay
  /\ now' = now + MsPerDay
  /\ UNCHANGED <<probeVars, words, formats, localStorage, engineVars,
                 sessionVars>>

\* an attempt on any tuple of the catalog is recorded
AttemptAny ==
  /\ Len(history) < MaxHistory
  /\ \E i \in DOMAIN words, j \in DOMAIN formats, isCorrect \in BOOLEAN :
        /\ wordSupportsFormat(words[i], formats[j])
        /\ recordAttempt(words[i].id, formats[j].id, isCorrect)
  /\ UNCHANGED <<probeVars, words, formats, wordOptionFloor, now, sessionVars>>
  /\ persist({STORAGE_KEYS.HISTORY, REVIEW_STORAGE_KEY})

\* an attempt on the first tuple of the catalog is recorded
AttemptFirst ==
  /\ Len(history) < MaxTupleAttempts
  /\ \E isCorrect \in BOOLEAN :
        recordAttempt(words[1].id, formats[1].id, isCorrect)
  /\ UNCHANGED <<probeVars, words, formats, wordOptionFloor, now, sessionVars>>
  /\ persist({STORAGE_KEYS.HISTORY, REVIEW_STORAGE_KEY})

NextAttempts == AttemptAny \/ AttemptFirst
SpecAttempts == Init /\ [][NextAttempts]_vars

NextTuple == AttemptFirst \/ Tick
SpecTuple == Init /\ [][NextTuple]_vars

----------------------------------------------------------------------------
(* Sessions built from practised catalogs *)

\* input of the session length slider
setSessionLength(value) ==
  /\ sessionLength' = value
  /\ UNCHANGED <<probeVars, words, formats, now, engineVars, sessionPlanLength,
                 queue, completedBaseExercises, currentExercise, transition,
                 pendingNext, buttons, visible>>
  /\ persist({STORAGE_KEYS.SETTINGS})

\* the results of the attempts of the log on a tuple
tupleResults(log, key) ==
  LET mine == SelectSeq(log, LAMBDA e : <<e.wordId, e.formatId>> = key)
  IN [i \in DOMAIN mine |-> mine[i].result]

\* practice a tuple can have had: none, one miss, or a run of correct answers
\* as long as MIN_ATTEMPTS
PracticeProfiles ==
  {<<>>, <<"incorrect">>, [i \in 1..MIN_ATTEMPTS |-> "correct"]}

IsPrefix(short, long) ==
  /\ Len(short) <= Len(long)
  /\ \A i \in DOMAIN short : short[i] = long[i]

\* a card is created, rendered and answered on day 0; tuples are practised
\* one after the other, in the order of allExercises, each up to one of the
\* profiles
Practice ==
  /\ now = 0
  /\ returned = NoCall
  /\ \E all \in {allExercises} :
       \E n \in DOMAIN all, isCorrect \in BOOLEAN :
          /\ n <= MaxPractised
          /\ \E profile \in PracticeProfiles :
               IsPrefix(Append(tupleResults(history, <<all[n].word.id,
                                                      all[n].format.id>>),
                               IF isCorrect THEN "correct" ELSE "incorrect"),
                        profile)
          /\ \A m \in DOMAIN all :
               \E results \in {tupleResults(history, <<all[m].word.id,
                                                       all[m].format.id>>)} :
                 /\ m < n => results \in PracticeProfiles
                 /\ m > n => results = <<>>
          /\ ~createExerciseThrows(all[n].word, all[n].format)
          /\ wordOptionFloor' =
               handleSingleOptionPromotion(
                 createExercise(all[n].word, all[n].format))
          /\ recordAttempt(all[n].word.id, all[n].format.id, isCorrect)
  /\ UNCHANGED <<probeVars, words, formats, now, sessionVars>>
  /\ persist({STORAGE_KEYS.HISTORY, REVIEW_STORAGE_KEY} \cup floorKeys)

\* the learner moves the slider before any practice
MoveSlider ==
  /\ history = <<>>
  /\ now = 0
  /\ returned = NoCall
  /\ sessionLength = DEFAULT_LENGTH
  /\ \E value \in SliderValues : setSessionLength(value)

\* a day passes between practice and the next session
DayPasses ==
  /\ returned = NoCall
  /\ now = 0
  /\ Tick

\* the outcome of buildSessionQueue for one order of the sorted candidates
buildOutcome(sorted, buckets, length) ==
  Only({LET threw ==
              \/ Len(sorted) = 0
              \/ \E n \in DOMAIN selected :
                   createExerciseThrows(selected[n].word, selected[n].format)
            session == [n \in DOMAIN selected |->
                          createExercise(selected[n].word, selected[n].format)]
        IN [op |-> "buildSessionQueue",
            threw |-> threw,
            session |-> IF threw THEN <<>> ELSE session,
            target |-> length,
            cappedLength |-> Len(capped.selected),
            overriddenLength |-> Len(overridden.selected),
            buckets |-> buckets]
        : <<capped, overridden, selected>> \in
            {<<capped, overridden,
               SubSeq(final.selected, 1, Min(length, Len(final.selected)))>>
             : <<capped, overridden, final>> \in
                 {<<capped, overridden,
                    takeFallback(overridden, sorted, length)>>
                  : <<capped, overridden>> \in
                      {<<capped,
                         takeOverriding(capped, sorted, buckets, length)>>
                       : capped \in
                           {takeCapped(sorted, buckets, length)}}}}})

\* buildSessionQueue is called: it throws, or returns the session selected
\* from one of the orders the sort can leave the candidates in
Build ==
  /\ returned = NoCall
  /\ \E <<all, buckets>> \in {<<allExercises, wordBuckets>>} :
       \E sorted \in sortedOrders(all, DOMAIN all) :
         returned' = buildOutcome(sorted, buckets, targetLength(Len(all)))
  /\ UNCHANGED <<panelClicks, words, formats, now, localStorage, engineVars,
                 sessionVars>>

InitQueue == \E catalog \in QueueCatalogs : InitWith(catalog)

NextQueue == Practice \/ MoveSlider \/ DayPasses \/ Build
SpecQueue == InitQueue /\ [][NextQueue]_vars

\* buildOptions calls pickDistractorIds for a card with optionCount options,
\* a word and a format with another answer than a letter
Pick ==
  /\ returned = NoCall
  /\ \E i \in DOMAIN words, j \in DOMAIN formats, optionCount \in 1..4 :
       /\ wordSupportsFormat(words[i], formats[j])
       /\ formats[j].answerType # "letter"
       /\ \E picked \in {pickDistractorIds(words[i], formats[j],
                                            Max(optionCount - 1, 0))} :
            returned' = [op |-> "pickDistractorIds", word |-> words[i],
                         format |-> formats[j],
                         desiredCount |-> Max(optionCount - 1, 0),
                         threw |-> picked.threw, ids |-> picked.ids]
  /\ UNCHANGED <<panelClicks, words, formats, now, localStorage, engineVars,
                 sessionVars>>

InitDistractors == \E catalog \in DistractorCatalogs : InitWith(catalog)

NextDistractors == Pick
SpecDistractors == InitDistractors /\ [][NextDistractors]_vars

\* click on the Start button when buildSessionQueue throws: the exception
\* leaves the handler before state.queue is assigned.  The call throws when
\* there is no valid pair, or at the first selected candidate for which
\* createExercise throws
handleStartSessionThrows ==
  /\ "start" \in visible
  /\ Len(words) # 0
  /\ returned = NoCall
  /\ \E <<all, buckets>> \in {<<allExercises, wordBuckets>>} :
       \/ /\ Len(all) = 0
          /\ returned' = [op |-> "handleStartSession", threw |-> TRUE,
                          cause |-> "no pairs"]
       \/ \E sorted \in sortedOrders(all, DOMAIN all) :
            \E selected \in {selectCandidates(sorted, buckets,
                                               targetLength(Len(all)))} :
              \E n \in DOMAIN selected :
                /\ createExerciseThrows(selected[n].word, selected[n].format)
                /\ \A m \in 1..(n - 1) :
                     ~createExerciseThrows(selected[m].word,
                                           selected[m].format)
                /\ returned' =
                     [op |-> "handleStartSession", threw |-> TRUE,
                      cause |-> IF selected[n].format.answerType = "letter"
                                THEN "letter" ELSE "distractors",
                      word |-> selected[n].word,
                      format |-> selected[n].format,
                      optionCount |->
                        getOptionCountForTuple(selected[n].word.id,
                                               selected[n].format.id),
                      pickThrew |->
                        pickDistractorIds(
                          selected[n].word, selected[n].format,
                          Max(getOptionCountForTuple(selected[n].word.id,
                                                     selected[n].format.id)
                                - 1, 0)).threw]
  /\ UNCHANGED <<panelClicks, words, formats, now, localStorage, engineVars,
                 sessionVars>>

\* the catalogs sessions are started from: in some of them a practised word
\* has fewer distractors than its cards need
StartCatalogs == {CatalogNone, CatalogSingle, CatalogMixed, CatalogLetters}

\* practice before the Start button is clicked
PracticeBeforeStart ==
  /\ "start" \in visible
  /\ Practice

InitStart == \E catalog \in StartCatalogs : InitWith(catalog)

NextStart ==
  \/ PracticeBeforeStart
  \/ handleStartSession
  \/ handleStartSessionThrows
SpecStart == InitStart /\ [][NextStart]_vars

\* buildLetterOptions is called for a word and an option count: it throws
\* when the word has no valid letter, else returns one of its outcomes
BuildLetters ==
  /\ returned = NoCall
  /\ \E i \in DOMAIN words, optionCount \in 0..MaxOptionCount :
       IF normalizeLetter(words[i].initialLetter) = ""
       THEN returned' = [op |-> "buildLetterOptions", word |-> words[i],
                         optionCount |-> optionCount, threw |-> TRUE,
                         options |-> <<>>]
       ELSE \E options \in buildLetterOptions(words[i], optionCount) :
              returned' = [op |-> "buildLetterOptions", word |-> words[i],
                           optionCount |-> optionCount, threw |-> FALSE,
                           options |-> options]
  /\ UNCHANGED <<panelClicks, words, formats, now, localStorage, engineVars,
                 sessionVars>>

InitLetters == \E catalog \in LetterCatalogs : InitWith(catalog)

NextLetters == BuildLetters
SpecLetters == InitLetters /\ [][NextLetters]_vars

\* the catalogs whose candidates are sorted
SortCatalogs == {CatalogMixed, CatalogPlain}

\* the calls of takeFromSet in buildSessionQueue: bucket, isNew, overrideLimit
TakeCalls ==
  {<<"unmasteredSet", FALSE, FALSE>>, <<"newSet", TRUE, FALSE>>,
   <<"masteredSet", FALSE, FALSE>>, <<"unmasteredSet", FALSE, TRUE>>,
   <<"newSet", TRUE, TRUE>>, <<"masteredSet", FALSE, TRUE>>}

\* buildSessionQueue sorts its candidates with the comparator
Sort ==
  /\ returned = NoCall
  /\ \E sorted \in sortOutcomes(allExercises) :
       returned' = [op |-> "sort", sorted |-> sorted]
  /\ UNCHANGED <<panelClicks, words, formats, now, localStorage, engineVars,
                 sessionVars>>

\* one pass of takeFromSet over the sorted candidates, on an empty selection
\* or on the selection of the capped fill
TakeOnePass ==
  /\ returned.op = "sort"
  /\ \E <<buckets, length>> \in
          {<<wordBuckets, targetLength(Len(returned.sorted))>>} :
       \E call \in TakeCalls :
         \E selection \in
              {EmptySelection, takeCapped(returned.sorted, buckets, length)} :
           returned' =
             [op |-> "takeFromSet",
              bucket |-> call[1],
              overrideLimit |-> call[3],
              before |-> selection.selected,
              after |-> takePass(selection, returned.sorted,
                                 buckets[call[1]], call[2], call[3],
                                 length).selected]
  /\ UNCHANGED <<panelClicks, words, formats, now, localStorage, engineVars,
                 sessionVars>>

InitSort == \E catalog \in SortCatalogs : InitWith(catalog)

NextSort == Practice \/ Sort \/ TakeOnePass
SpecSort == InitSort /\ [][NextSort]_vars

\* an option of the current card is clicked
Answer(maxAttempts) ==
  /\ Len(history) < maxAttempts
  /\ pendingNext < MaxPendingTimers
  /\ \E isCorrect \in BOOLEAN : handleAnswerSelection(isCorrect)

\* click on a button of the control panel
MarkAsLearned ==
  /\ panelClicks < MaxPanelClicks
  /\ panelClicks' = panelClicks + 1
  /\ \E i \in DOMAIN words : markWordAsMastered(words[i].id)

ResetProgress ==
  /\ panelClicks < MaxPanelClicks
  /\ panelClicks' = panelClicks + 1
  /\ \E i \in DOMAIN words : resetWordProgress(words[i].id)

\* a word that lists a picture word, an id of no word and its own id as
\* preferred distractors, two words with picture and sound, and the picture
\* word
CatalogPreferred ==
  << Word("dog", TRUE, TRUE, TRUE, "", <<"cat", "gnu", "dog">>),
     Word("ant", FALSE, TRUE, TRUE, "", <<>>),
     Word("bee", FALSE, TRUE, TRUE, "", <<>>),
     Word("cat", FALSE, TRUE, FALSE, "", <<>>) >>

\* the catalogs exercises are created from: words without letters, with
\* preferred distractors, and picture words with letters
ExerciseCatalogs == {CatalogPlain, CatalogPreferred, CatalogAlphabet}

\* Mark as Learned before any exercise is created
LearnedBefore ==
  /\ returned = NoCall
  /\ MarkAsLearned

\* createExercise is called for a valid pair, as tryAddCandidate does
CreateExercise ==
  /\ returned = NoCall
  /\ \E i \in DOMAIN words, j \in DOMAIN formats :
       /\ formats[j].id \notin DEPRECATED_FORMAT_IDS
       /\ wordSupportsFormat(words[i], formats[j])
       /\ \E built \in buildOptions(words[i], formats[j],
                                    getOptionCountForTuple(words[i].id,
                                                           formats[j].id)) :
            returned' = [op |-> "createExercise", word |-> words[i],
                         format |-> formats[j], threw |-> built.threw,
                         options |-> built.options,
                         optionCount |-> Len(built.options)]
  /\ UNCHANGED <<panelClicks, words, formats, now, localStorage, engineVars,
                 sessionVars>>

InitExercise == \E catalog \in ExerciseCatalogs : InitWith(catalog)

NextExercise == Practice \/ LearnedBefore \/ CreateExercise
SpecExercise == InitExercise /\ [][NextExercise]_vars

\* the session handlers and their timers
NextSession ==
  \/ handleStartSession
  \/ handleRestart
  \/ returnHome
  \/ endSessionEarly
  \/ Answer(MaxSessionAttempts)
  \/ nextExerciseTimer
  \/ transitionRender
  \/ transitionEnd
SpecSession == Init /\ [][NextSession]_vars

\* the session handlers and the control panel
NextApp ==
  \/ handleStartSession
  \/ handleRestart
  \/ returnHome
  \/ endSessionEarly
  \/ Answer(MaxAppAttempts)
  \/ nextExerciseTimer
  \/ transitionRender
  \/ transitionEnd
  \/ MarkAsLearned
  \/ ResetProgress
SpecApp == Init /\ [][NextApp]_vars

\* the catalogs of the sessions that are ended, restarted and played to the
\* end: with CatalogSingle a session is one card long
SessionCatalogs == {CatalogSingle, CatalogLetters}

InitCards == \E catalog \in SessionCatalogs : InitWith(catalog)

SpecCards == InitCards /\ [][NextSession]_vars

----------------------------------------------------------------------------
(* Progress kept across page loads *)

\* the catalog of the pages that are loaded from storage
StoredCatalog == CatalogLetters

Entry(wordId, formatId, result) ==
  [timestamp |-> 0, wordId |-> wordId, formatId |-> formatId,
   result |-> result]

\* an attempt on a format that has been removed since
DeprecatedEntry == Entry("ant", "image_to_text", "correct")

\* stored logs: attempts on removed formats among attempts on both words
LogDeprecated == << DeprecatedEntry >>
LogMixed ==
  << Entry("bee", "image_to_letter", "correct"), DeprecatedEntry,
     Entry("ant", "letter_to_image", "incorrect"),
     Entry("bee", "image_to_letter", "correct") >>
LogNull == << Entry("ant", "letter_to_image", "correct"), NullEntry >>

StoredLog(items) == JSONstringify(JSONArray(items))
StoredFloors == JSONstringify(JSONObject([ant |-> 3, bee |-> 0]))
StoredSchedule ==
  JSONstringify(JSONObject(
    [key \in {<<"bee", "image_to_letter">>} |->
       [intervalIndex |-> 1, nextReview |-> MsPerDay]]))
StoredSettings(length) == JSONstringify(JSONObject([sessionLength |-> length]))

\* localStorage with the given texts under their keys
StorageOf(pairs) ==
  [key \in {pair[1] : pair \in pairs} |->
     (CHOOSE pair \in pairs : pair[1] = key)[2]]

\* what the browser can hold when the page is opened: nothing, texts that do
\* not parse, what the program wrote earlier, and JSON of another shape
StoredStates ==
  { StorageOf({}),
    StorageOf({<<STORAGE_KEYS.HISTORY, Unparsable>>,
               <<STORAGE_KEYS.WORD_OPTION_FLOOR, Unparsable>>,
               <<REVIEW_STORAGE_KEY, Unparsable>>,
               <<STORAGE_KEYS.SETTINGS, Unparsable>>}),
    StorageOf({<<STORAGE_KEYS.HISTORY, StoredLog(LogMixed)>>,
               <<STORAGE_KEYS.WORD_OPTION_FLOOR, StoredFloors>>,
               <<REVIEW_STORAGE_KEY, StoredSchedule>>,
               <<STORAGE_KEYS.SETTINGS, StoredSettings(MIN_LENGTH + 2)>>}),
    StorageOf({<<STORAGE_KEYS.HISTORY, Unparsable>>,
               <<STORAGE_KEYS.WORD_OPTION_FLOOR, StoredFloors>>,
               <<REVIEW_STORAGE_KEY, StoredSchedule>>,
               <<STORAGE_KEYS.SETTINGS, StoredSettings(MAX_LENGTH + 10)>>}),
    StorageOf({<<STORAGE_KEYS.HISTORY, StoredLog(LogDeprecated)>>,
               <<STORAGE_KEYS.WORD_OPTION_FLOOR, Unparsable>>,
               <<REVIEW_STORAGE_KEY, StoredSchedule>>}),
    StorageOf({<<STORAGE_KEYS.HISTORY, StoredLog(LogMixed)>>,
               <<STORAGE_KEYS.WORD_OPTION_FLOOR, StoredFloors>>,
               <<REVIEW_STORAGE_KEY, Unparsable>>,
               <<STORAGE_KEYS.SETTINGS, Unparsable>>}),
    StorageOf({<<STORAGE_KEYS.HISTORY, JSONstringify(JSONObject(EmptyMap))>>,
               <<STORAGE_KEYS.SETTINGS, StoredSettings(0)>>}),
    StorageOf({<<STORAGE_KEYS.HISTORY, StoredLog(LogNull)>>,
               <<STORAGE_KEYS.WORD_OPTION_FLOOR, StoredFloors>>}) }

\* the page is opened or reloaded: the state starts from the values of
\* state.js, and what init() does to the session screens is left as it is
pageOpened ==
  /\ sessionPlanLength' = DEFAULT_LENGTH
  /\ queue' = <<>>
  /\ completedBaseExercises' = 0
  /\ currentExercise' = Undefined
  /\ transition' = "idle"
  /\ pendingNext' = 0
  /\ buttons' = NoButtons
  /\ visible' = {"start"}
  /\ UNCHANGED <<now, localStorage, probeVars>>

\* init() on a page that is opened or reloaded: the stored settings, floors,
\* log and schedule are loaded, then the words of the catalog
loadPage(catalog) ==
  /\ ~loadHistoryThrows(localStorage)
  /\ pageOpened
  /\ sessionLength' = applyStoredSettings(localStorage)
  /\ wordOptionFloor' = loadWordOptionFloor(localStorage)
  /\ \E loaded \in {loadHistory(localStorage)} :
       /\ history' = loaded.history
       /\ performanceMap' = loaded.performanceMap
       /\ optionStateMap' = loaded.optionStateMap
  /\ reviewSchedule' = loadReviewSchedule(localStorage, now)
  /\ words' = catalog
  /\ formats' = computeAvailableFormats(catalog)

\* init() on the catalog of the pages that are loaded from storage
init == loadPage(StoredCatalog)

\* init() when loadHistory throws: the filtered log has been assigned, the
\* maps, the schedule and the words are never loaded
initThrows ==
  /\ loadHistoryThrows(localStorage)
  /\ pageOpened
  /\ sessionLength' = applyStoredSettings(localStorage)
  /\ wordOptionFloor' = loadWordOptionFloor(localStorage)
  /\ history' =
       SelectSeq(localStorage[STORAGE_KEYS.HISTORY].json.items,
                 LAMBDA entry : entry.formatId \notin DEPRECATED_FORMAT_IDS)
  /\ performanceMap' = EmptyMap
  /\ optionStateMap' = EmptyMap
  /\ reviewSchedule' = EmptyMap
  /\ words' = <<>>
  /\ formats' = <<>>

\* an attempt on the first tuple of the loaded catalog is recorded
AttemptLoaded ==
  /\ Len(words) # 0
  /\ Len(history) < MaxLoadedAttempts
  /\ AttemptFirst

\* the page before init() has run, on any of the stored states
InitProgress ==
  /\ words = <<>>
  /\ formats = <<>>
  /\ history = <<>>
  /\ performanceMap = EmptyMap
  /\ optionStateMap = EmptyMap
  /\ wordOptionFloor = EmptyMap
  /\ reviewSchedule = EmptyMap
  /\ localStorage \in StoredStates
  /\ now = 0
  /\ sessionLength = DEFAULT_LENGTH
  /\ sessionPlanLength = DEFAULT_LENGTH
  /\ queue = <<>>
  /\ completedBaseExercises = 0
  /\ currentExercise = Undefined
  /\ transition = "idle"
  /\ pendingNext = 0
  /\ buttons = NoButtons
  /\ panelClicks = 0
  /\ returned = NoCall
  /\ visible = {"start"}

NextProgress ==
  \/ init
  \/ initThrows
  \/ AttemptLoaded
  \/ MarkAsLearned
  \/ ResetProgress
SpecProgress == InitProgress /\ [][NextProgress]_vars

----------------------------------------------------------------------------
(* A session with retries *)

\* three picture words with different initial letters
CatalogThree ==
  << Word("ant", FALSE, TRUE, FALSE, "a", <<>>),
     Word("bee", FALSE, TRUE, FALSE, "b", <<>>),
     Word("cat", FALSE, TRUE, FALSE, "c", <<>>) >>

\* the entries of attempts on a tuple with the given results
Attempts(wordId, formatId, results) ==
  [n \in DOMAIN results |-> Entry(wordId, formatId, results[n])]

\* the log of an earlier visit: every tuple has its own success rate, so the
\* order of the next session is fixed, and the image_to_letter tuples are at
\* level 3
LogPractised ==
  Attempts("ant", "letter_to_image", <<"incorrect">>)
    \o Attempts("bee", "letter_to_image", <<"incorrect", "correct">>)
    \o Attempts("cat", "letter_to_image", <<"incorrect", "correct", "correct">>)
    \o Attempts("bee", "image_to_letter",
                <<"incorrect", "incorrect", "correct", "correct", "correct">>)
    \o Attempts("ant", "image_to_letter",
                <<"incorrect", "correct", "correct", "correct">>)
    \o Attempts("cat", "image_to_letter", <<"correct", "correct", "correct">>)

\* what the earlier visit left in storage
StoredPractice ==
  StorageOf({<<STORAGE_KEYS.HISTORY, StoredLog(LogPractised)>>,
             <<STORAGE_KEYS.WORD_OPTION_FLOOR,
               JSONstringify(JSONObject([ant |-> 2, bee |-> 2, cat |-> 2]))>>})

\* incorrect answers in the log
Mistakes(log) == Len(SelectSeq(log, LAMBDA entry : entry.result = "incorrect"))

\* init() when the page is opened
PageFirstOpened ==
  /\ Len(words) = 0
  /\ loadPage(CatalogThree)

\* the learner answers the card that is shown, with a bounded number of
\* incorrect answers in this visit
AnswerShown ==
  /\ pendingNext < MaxPendingTimers
  /\ \E isCorrect \in BOOLEAN :
       /\ isCorrect \/ Mistakes(history) < Mistakes(LogPractised) + MaxMistakes
       /\ handleAnswerSelection(isCorrect)

\* the page before init() has run, on the storage of the earlier visit
InitRetry ==
  /\ words = <<>>
  /\ formats = <<>>
  /\ history = <<>>
  /\ performanceMap = EmptyMap
  /\ optionStateMap = EmptyMap
  /\ wordOptionFloor = EmptyMap
  /\ reviewSchedule = EmptyMap
  /\ localStorage = StoredPractice
  /\ now = 0
  /\ sessionLength = DEFAULT_LENGTH
  /\ sessionPlanLength = DEFAULT_LENGTH
  /\ queue = <<>>
  /\ completedBaseExercises = 0
  /\ currentExercise = Undefined
  /\ transition = "idle"
  /\ pendingNext = 0
  /\ buttons = NoButtons
  /\ panelClicks = 0
  /\ returned = NoCall
  /\ visible = {"start"}

NextRetry ==
  \/ PageFirstOpened
  \/ handleStartSession
  \/ AnswerShown
  \/ nextExerciseTimer
  \/ transitionRender
  \/ transitionEnd
  \/ endSessionEarly

\* the timers of scheduleNextExercise and runTransition fire, and the learner
\* goes on answering the card that is shown; the session can be ended at any
\* time
SpecRetry ==
  /\ InitRetry
  /\ [][NextRetry]_vars
  /\ WF_vars(nextExerciseTimer)
  /\ WF_vars(transitionRender)
  /\ WF_vars(transitionEnd)
  /\ WF_vars(AnswerShown)

\* click on Restart early in the visit
RestartEarly ==
  /\ Len(history) < Len(LogPractised) + MaxRestartAttempts
  /\ handleRestart

NextRounds ==
  \/ PageFirstOpened
  \/ handleStartSession
  \/ RestartEarly
  \/ AnswerShown
  \/ nextExerciseTimer
  \/ transitionRender
  \/ transitionEnd
  \/ endSessionEarly

\* sessions of one visit, one after the other: the timers fire and the
\* learner goes on answering the card that is shown; ending a session and
\* starting another is up to the learner
SpecRounds ==
  /\ InitRetry
  /\ [][NextRounds]_vars
  /\ WF_vars(nextExerciseTimer)
  /\ WF_vars(transitionRender)
  /\ WF_vars(transitionEnd)
  /\ WF_vars(AnswerShown)

----------------------------------------------------------------------------
(* Sessions answered correctly on the log of an earlier visit *)

\* a word with picture, sound and letter (five formats), three picture words
\* that support no format, and a word that was never practised
CatalogBlocked ==
  << Word("fox", FALSE, TRUE, TRUE, "f", <<>>), Cup, Hat,
     Word("jar", FALSE, TRUE, FALSE, "", <<>>), Egg >>

\* the log of an earlier visit with sessions of five cards: the first session
\* was ended after three single-option cards of "fox", the second after the
\* two unseen formats and audio_to_image were missed once each
LogBlocked ==
  Attempts("fox", "letter_to_image", <<"correct">>)
    \o Attempts("fox", "letter_to_audio", <<"correct">>)
    \o Attempts("fox", "audio_to_image", <<"correct">>)
    \o Attempts("fox", "image_to_letter", <<"incorrect", "correct">>)
    \o Attempts("fox", "audio_to_letter", <<"incorrect", "correct">>)
    \o Attempts("fox", "audio_to_image", <<"incorrect", "correct">>)

\* what the earlier visit left in storage
StoredBlocked ==
  StorageOf({<<STORAGE_KEYS.HISTORY, StoredLog(LogBlocked)>>,
             <<STORAGE_KEYS.SETTINGS, StoredSettings(MIN_LENGTH)>>,
             <<STORAGE_KEYS.WORD_OPTION_FLOOR,
               JSONstringify(JSONObject([fox |-> 2]))>>})

\* init() when the page is opened
PageOpenedAgain ==
  /\ Len(words) = 0
  /\ loadPage(CatalogBlocked)

\* the learner gives the correct answer to the card that is shown
AnswerCorrectly ==
  /\ pendingNext < MaxPendingTimers
  /\ handleAnswerSelection(TRUE)

\* click on Restart while the visit is short
RestartAgain ==
  /\ Len(history) < Len(LogBlocked) + MaxBlockedAttempts
  /\ handleRestart

\* the page before init() has run, on the storage of the earlier visit
InitBlocked ==
  /\ words = <<>>
  /\ formats = <<>>
  /\ history = <<>>
  /\ performanceMap = EmptyMap
  /\ optionStateMap = EmptyMap
  /\ wordOptionFloor = EmptyMap
  /\ reviewSchedule = EmptyMap
  /\ localStorage = StoredBlocked
  /\ now = 0
  /\ sessionLength = DEFAULT_LENGTH
  /\ sessionPlanLength = DEFAULT_LENGTH
  /\ queue = <<>>
  /\ completedBaseExercises = 0
  /\ currentExercise = Undefined
  /\ transition = "idle"
  /\ pendingNext = 0
  /\ buttons = NoButtons
  /\ panelClicks = 0
  /\ returned = NoCall
  /\ visible = {"start"}

NextBlocked ==
  \/ PageOpenedAgain
  \/ handleStartSession
  \/ RestartAgain
  \/ AnswerCorrectly
  \/ nextExerciseTimer
  \/ transitionRender
  \/ transitionEnd

\* whole sessions, one after the other, in which every card is answered
\* correctly
SpecBlocked == InitBlocked /\ [][NextBlocked]_vars

----------------------------------------------------------------------------
(* Properties *)

\* results of the attempts logged for a tuple key, oldest first
ResultsOf(log, key) ==
  LET mine == SelectSeq(log, LAMBDA e : <<e.wordId, e.formatId>> = key)
  IN [i \in DOMAIN mine |-> mine[i].result]

\* number of "correct" among the last n results of a sequence
CorrectAmongLast(results, n) ==
  Cardinality({i \in DOMAIN results :
                 i > Len(results) - n /\ results[i] = "correct"})

AllKeys == WordIds \X FormatIds

\* C1: for every tuple key, after any sequence of recorded attempts the
\* performance record has attempts = correct + incorrect.
C1_AttemptsSplit ==
  \A key \in DOMAIN performanceMap :
    performanceMap[key].attempts =
      performanceMap[key].correct + performanceMap[key].incorrect

C1_Witness ==
  \E key \in DOMAIN performanceMap :
    /\ performanceMap[key].correct >= 2
    /\ performanceMap[key].incorrect >= 2
    /\ Cardinality(DOMAIN performanceMap) >= 2

\* C2: buildPerformanceMap applied to the attempt log gives, for every tuple
\* key, the record (attempts, correct, incorrect, streak, recent) that the
\* incremental updatePerformanceMapWithEntry calls have built.
C2_ReplayEquivalence ==
  LET replayed == buildPerformanceMap(history)
      View(r) == <<r.attempts, r.correct, r.incorrect, r.streak, r.recent>>
  IN /\ DOMAIN replayed = DOMAIN performanceMap
     /\ \A key \in DOMAIN performanceMap :
          View(replayed[key]) = View(performanceMap[key])

\* two tuples attempted, one of them past the recency window, with a sign
\* flip of the streak
C2_Witness ==
  /\ Cardinality(DOMAIN performanceMap) >= 2
  /\ \E key \in DOMAIN performanceMap :
       /\ performanceMap[key].attempts > RECENCY_WINDOW
       /\ performanceMap[key].correct >= 2
       /\ performanceMap[key].streak = -1

\* C3: isTupleMastered is true exactly when the tuple has at least 4 attempts
\* and at least 85% of its last min(6, n) outcomes are correct; it is false
\* for a missing record.
C3_MasteryIsRecencyGated ==
  \A key \in AllKeys :
    LET results == ResultsOf(history, key)
        n == Len(results)
        window == Min(6, n)
    IN isTupleMastered(MapGet(performanceMap, key)) <=>
         /\ key \in DOMAIN performanceMap
         /\ n >= 4
         /\ window > 0
         /\ 100 * CorrectAmongLast(results, window) >= 85 * window

\* lifetime accuracy at least 0.85, recent window below it: not mastered
C3_Witness ==
  \E key \in DOMAIN performanceMap :
    /\ performanceMap[key].attempts >= 4
    /\ 100 * performanceMap[key].correct >= 85 * performanceMap[key].attempts
    /\ performanceMap[key].recent[Len(performanceMap[key].recent)] = "incorrect"
    /\ ~isTupleMastered(Some(performanceMap[key]))

\* C4: after any sequence of transitions from the default option state the
\* level is an integer in 1..4.
C4_LevelInRange ==
  \A key \in DOMAIN optionStateMap : optionStateMap[key].level \in 1..4

\* a correct answer was given at level 4 with the success run already full
C4_Witness ==
  \E key \in DOMAIN optionStateMap :
    /\ optionStateMap[key].level = 4
    /\ optionStateMap[key].successRun = 2
    /\ Len(ResultsOf(history, key)) >= 8

\* level and success run after k consecutive correct answers from the default
LevelAfterCorrect(k) ==
  IF k = 0 THEN 1 ELSE IF k <= 2 THEN 2 ELSE IF k <= 4 THEN 3 ELSE 4
RunAfterCorrect(k) ==
  IF k \in {2, 4} THEN 1 ELSE IF k <= 5 THEN 0 ELSE Min(k - 5, 2)

\* C5: from the default option state, k consecutive correct answers give the
\* levels 2,2,3,3,4 for k = 1..5; every promotion resets successRun to 0; at
\* level 4 a correct answer leaves the level at 4 and successRun at most 2.
C5_PromotionLadder ==
  [][\A key \in DOMAIN optionStateMap' :
       LET results == ResultsOf(history', key)
           k == Len(results)
           before == IF key \in DOMAIN optionStateMap
                     THEN optionStateMap[key] ELSE createDefaultOptionState
           after == optionStateMap'[key]
       IN /\ (\A i \in DOMAIN results : results[i] = "correct") =>
               /\ after.level = LevelAfterCorrect(k)
               /\ after.successRun = RunAfterCorrect(k)
          /\ after.level > before.level =>
               /\ after.successRun = 0
               /\ after.level = before.level + 1
          /\ (before.level = 4 /\ k > Len(ResultsOf(history, key))
                /\ results[k] = "correct") =>
               /\ after.level = 4
               /\ after.successRun = Min(before.successRun + 1, 2)
    ]_vars

\* eight correct answers in a row: level 4 with the success run capped
C5_Witness ==
  \E key \in DOMAIN optionStateMap :
    LET results == ResultsOf(history, key)
    IN /\ Len(results) = 8
       /\ \A i \in DOMAIN results : results[i] = "correct"
       /\ optionStateMap[key].level = 4
       /\ optionStateMap[key].successRun = 2

\* C7: the level decreases only in a step from level 3 or 4 that is the
\* second of two consecutive incorrect answers, and then becomes 2 with
\* failureRun 0; an incorrect answer at level 1 or 2 leaves the level alone.
C7_DemotionOnlyFromThree ==
  [][\A key \in DOMAIN optionStateMap :
       LET results == ResultsOf(history', key)
           k == Len(results)
           attempted == k > Len(ResultsOf(history, key))
           before == optionStateMap[key]
           after == optionStateMap'[key]
       IN /\ after.level < before.level =>
               /\ before.level \in {3, 4}
               /\ after.level = 2
               /\ after.failureRun = 0
               /\ k >= 2
               /\ results[k] = "incorrect"
               /\ results[k - 1] = "incorrect"
          /\ (attempted /\ results[k] = "incorrect" /\ before.level \in {1, 2})
               => after.level = before.level
    ]_vars

\* a tuple was demoted to level 2 by its second incorrect answer in a row
C7_Witness ==
  \E key \in DOMAIN optionStateMap :
    LET results == ResultsOf(history, key)
        k == Len(results)
    IN /\ k >= 5
       /\ results[k] = "incorrect"
       /\ results[k - 1] = "incorrect"
       /\ optionStateMap[key] = [level |-> 2, successRun |-> 0, failureRun |-> 0]

\* C10: each scheduleMasteryReview call moves intervalIndex by +1 when the
\* tuple is mastered and by -1 when it is not, clamped to 0..4 (a missing
\* entry counts as index 0), and sets nextReview to the current time plus
\* [0,1,3,7,14][intervalIndex] days; intervalIndex stays in 0..4.
C10_ReviewInterval ==
  [][\A key \in DOMAIN reviewSchedule' :
       LET attempted ==
             Len(ResultsOf(history', key)) > Len(ResultsOf(history, key))
           before == IF key \in DOMAIN reviewSchedule
                     THEN reviewSchedule[key].intervalIndex ELSE 0
           after == reviewSchedule'[key]
           mastered == isTupleMastered(MapGet(performanceMap', key))
           daysOf == [i \in 0..4 |->
                        IF i = 0 THEN 0 ELSE IF i = 1 THEN 1
                        ELSE IF i = 2 THEN 3 ELSE IF i = 3 THEN 7 ELSE 14]
       IN /\ after.intervalIndex \in 0..4
          /\ attempted =>
               /\ after.intervalIndex =
                    IF mastered THEN Min(before + 1, 4) ELSE Max(before - 1, 0)
               /\ after.nextReview =
                    now + daysOf[after.intervalIndex] * 86400000
          /\ ~attempted =>
               /\ key \in DOMAIN reviewSchedule
               /\ after = reviewSchedule[key]
    ]_vars

\* the interval index was clamped at the top of the table, on a later day
C10_Witness ==
  \E key \in DOMAIN reviewSchedule :
    /\ reviewSchedule[key].intervalIndex = 4
    /\ performanceMap[key].attempts = 8
    /\ reviewSchedule[key].nextReview = 15 * MsPerDay

\* the option-state level of a tuple, 1 when it has no option state
LevelOf(key) ==
  IF key \in DOMAIN optionStateMap THEN optionStateMap[key].level ELSE 1

\* the stored floor of a word in a floor map, 1 when unset
FloorOf(floors, wordId) ==
  IF wordId \in DOMAIN floors THEN floors[wordId] ELSE 1

\* a word with no attempt in the log, no record and no stored floor
IsFreshWord(wordId) ==
  /\ wordId \notin DOMAIN wordOptionFloor
  /\ \A i \in DOMAIN history : history[i].wordId # wordId
  /\ \A key \in DOMAIN performanceMap \cup DOMAIN optionStateMap :
       key[1] # wordId

\* C6 as stated: the option count of every tuple of a fresh word is 1, and
\* a tuple whose only attempts are two consecutive correct answers given in
\* sessions has option count 3.
C6_CountThreeAfterTwoCorrect ==
  \A key \in AllKeys :
    /\ IsFreshWord(key[1]) => getOptionCountForTuple(key[1], key[2]) = 1
    /\ ResultsOf(history, key) = <<"correct", "correct">> =>
         getOptionCountForTuple(key[1], key[2]) = 3

\* C6, amended: the option count of every tuple of a fresh word is 1, and a
\* tuple whose only attempts are two consecutive correct answers given in
\* sessions has option count 2 (level 2 with a success run of 1, floor 2).
C6_CountTwoAfterTwoCorrect ==
  \A key \in AllKeys :
    /\ IsFreshWord(key[1]) => getOptionCountForTuple(key[1], key[2]) = 1
    /\ ResultsOf(history, key) = <<"correct", "correct">> =>
         /\ getOptionCountForTuple(key[1], key[2]) = 2
         /\ optionStateMap[key] = [level |-> 2, successRun |-> 1,
                                   failureRun |-> 0]
         /\ FloorOf(wordOptionFloor, key[1]) = 2

\* a tuple answered correctly on its first two cards while the other word
\* is still fresh
C6_Witness ==
  /\ \E key \in AllKeys : ResultsOf(history, key) = <<"correct", "correct">>
  /\ \E wordId \in WordIds : IsFreshWord(wordId)

\* C8: for every word id and format id, known or not, the option count is
\* the larger of the tuple's level (1 without option state) and the word's
\* floor (1 when unset), brought into 1..4; it is in 1..4 and not below the
\* floor.
C8_OptionCount ==
  \A wordId \in WordIds \cup {"unknown"}, formatId \in FormatIds \cup {"unknown"} :
    LET level == LevelOf(<<wordId, formatId>>)
        floor == FloorOf(wordOptionFloor, wordId)
        larger == IF level >= floor THEN level ELSE floor
        count == getOptionCountForTuple(wordId, formatId)
    IN /\ count = IF larger < 1 THEN 1 ELSE IF larger > 4 THEN 4 ELSE larger
       /\ count \in 1..4
       /\ count >= floor

\* one tuple has a level above the floor of its word while another has a
\* level below the floor of its word
C8_Witness ==
  /\ \E key \in AllKeys : LevelOf(key) > FloorOf(wordOptionFloor, key[1])
  /\ \E key \in AllKeys : LevelOf(key) < FloorOf(wordOptionFloor, key[1])

\* C9: in every step of the application (session start, restart, card
\* render, recorded attempt, Mark as Learned, ...) that lowers the floor of
\* a word, the step is resetWordProgress of that word.
C9_FloorLoweredOnlyByReset ==
  [][\A wordId \in WordIds :
       FloorOf(wordOptionFloor', wordId) < FloorOf(wordOptionFloor, wordId)
         => resetWordProgress(wordId)]_vars

\* the word of the card on display was promoted to floor 2 when its
\* single-option card was rendered, and its floor is 1 again
C9_Witness ==
  /\ currentExercise # Undefined
  /\ The(currentExercise).optionCount = 1
  /\ FloorOf(wordOptionFloor, The(currentExercise).wordId) = 1
  /\ The(currentExercise).wordId \in DOMAIN wordOptionFloor

----------------------------------------------------------------------------
(* Properties of buildSessionQueue *)

\* buildSessionQueue was called and returned a session
SessionReturned == returned.op = "buildSessionQueue" /\ ~returned.threw

\* the selection was still empty after the override passes, so the session
\* comes from the absolute fallback
FromFallback == returned.overriddenLength = 0

\* the tuple is mastered and its review is not due
MasteredNotDue(key) ==
  /\ key \in DOMAIN performanceMap
  /\ isTupleMastered(Some(performanceMap[key]))
  /\ key \in DOMAIN reviewSchedule
  /\ now < reviewSchedule[key].nextReview

\* C11: a tuple that is mastered and not due (a review entry exists and
\* now < nextReview) is in no session returned by buildSessionQueue, unless
\* the session was produced by the absolute fallback.
C11_MasteredNotDueExcluded ==
  (SessionReturned /\ ~FromFallback) =>
    \A n \in DOMAIN returned.session :
      ~MasteredNotDue(<<returned.session[n].wordId,
                        returned.session[n].formatId>>)

\* the valid (word, format) pairs of the catalog
ValidPairs ==
  {<<words[i].id, formats[j].id>> : <<i, j>> \in
     {<<i, j>> \in (DOMAIN words) \X (DOMAIN formats) :
        /\ formats[j].id \notin DEPRECATED_FORMAT_IDS
        /\ wordSupportsFormat(words[i], formats[j])}}

\* min(max(sessionLength, 5), min(20, n)) for n valid pairs
TargetOf(n) ==
  LET atLeast == IF sessionLength > 5 THEN sessionLength ELSE 5
      atMost == IF n < 20 THEN n ELSE 20
  IN IF atLeast < atMost THEN atLeast ELSE atMost

\* C12: for every state.sessionLength and catalog with n >= 1 valid pairs,
\* buildSessionQueue never returns more exercises than
\* min(max(sessionLength, 5), min(20, n)).
C12_AtMostTargetLength ==
  (SessionReturned /\ Cardinality(ValidPairs) >= 1) =>
    Len(returned.session) <= TargetOf(Cardinality(ValidPairs))

\* the slider is below the minimum, the catalog has more than five pairs and
\* the returned session has the five exercises of the target
C12_Witness ==
  /\ SessionReturned
  /\ sessionLength < 5
  /\ Cardinality(ValidPairs) > 5
  /\ Len(returned.session) = 5

\* C13: whenever buildSessionQueue returns, the returned session has exactly
\* the target length, for every performance and review state.
C13_ExactlyTargetLength ==
  SessionReturned => Len(returned.session) = returned.target

\* how often the word occurs in the session
Occurrences(session, wordId) ==
  Cardinality({n \in DOMAIN session : session[n].wordId = wordId})

\* the capped fill reached the target length, so that no override pass and no
\* fallback ran
CappedFillSufficed == returned.cappedLength >= returned.target

\* C14: if the capped fill (unmastered, then new, then mastered-due) reaches
\* the target length, so that no override pass and no absolute fallback
\* runs, no word occurs in more than 3 exercises of the returned session.
C14_WordAtMostThreeTimes ==
  (SessionReturned /\ CappedFillSufficed) =>
    \A wordId \in WordIds : Occurrences(returned.session, wordId) <= 3

\* the capped fill sufficed and a word occurs exactly three times, fewer
\* times than it has candidates in the two passes over its bucket
C14_Witness ==
  /\ SessionReturned
  /\ CappedFillSufficed
  /\ \E wordId \in returned.buckets.unmasteredSet :
       /\ Occurrences(returned.session, wordId) = 3
       /\ Cardinality({pair \in ValidPairs : pair[1] = wordId}) = 2

\* the words of the new bucket: words with a valid pair and no attempt
NewWords ==
  {wordId \in {pair[1] : pair \in ValidPairs} :
     \A i \in DOMAIN history : history[i].wordId # wordId}

\* the words of the new bucket that appear in the session
NewWordsIn(session) ==
  {wordId \in NewWords : Occurrences(session, wordId) > 0}

\* C15: in every session returned by buildSessionQueue, exercises of at most
\* 3 distinct words of the new bucket (words with no attempted format)
\* appear, also when the per-word cap is overridden.
C15_AtMostThreeNewWords ==
  SessionReturned => Cardinality(NewWordsIn(returned.session)) <= 3

\* more than three words are new, the override passes ran and filled the
\* session, and exactly three new words appear
C15_Witness ==
  /\ SessionReturned
  /\ Cardinality(NewWords) > 3
  /\ returned.cappedLength < returned.target
  /\ returned.overriddenLength > returned.cappedLength
  /\ Cardinality(NewWordsIn(returned.session)) = 3

\* buildSessionQueue was called
SessionBuilt == returned.op = "buildSessionQueue"

\* all three buckets are empty
NoBucket ==
  /\ returned.buckets.unmasteredSet = {}
  /\ returned.buckets.newSet = {}
  /\ returned.buckets.masteredSet = {}

\* option building succeeds for every valid pair
OptionsSucceed ==
  \A i \in DOMAIN words, j \in DOMAIN formats :
    <<words[i].id, formats[j].id>> \in ValidPairs
      => ~createExerciseThrows(words[i], formats[j])

\* C16: whenever at least one valid pair exists and option building
\* succeeds, buildSessionQueue returns a non-empty session, also when all
\* three buckets are empty (every word fully mastered and none due); the
\* session then consists of the first pairs of the sorted list, caps ignored.
C16_NonEmptySession ==
  (SessionBuilt /\ ValidPairs # {}) =>
    /\ OptionsSucceed => ~returned.threw
    /\ ~returned.threw => Len(returned.session) >= 1
    /\ (~returned.threw /\ NoBucket) =>
         /\ FromFallback
         /\ Len(returned.session) = returned.target

\* after practice every word is fully mastered and none is due: the buckets
\* are empty and a session is returned
C16_Witness ==
  /\ SessionReturned
  /\ history # <<>>
  /\ NoBucket
  /\ Len(returned.session) >= 1

\* the word has the attribute a format can require
HasAttribute(word, attribute) ==
  IF attribute = "translation" THEN word.hebrew
  ELSE IF attribute = "image" THEN word.image
  ELSE IF attribute = "audio" THEN word.audio
  ELSE word.initialLetter # ""

\* the word of the catalog has every attribute the format requires, and the
\* format is not deprecated
StructurallySupported(wordId, formatId) ==
  /\ formatId \notin DEPRECATED_FORMAT_IDS
  /\ \E i \in DOMAIN words, j \in DOMAIN EXERCISE_FORMATS :
       /\ words[i].id = wordId
       /\ EXERCISE_FORMATS[j].id = formatId
       /\ \A attribute \in EXERCISE_FORMATS[j].requires :
            HasAttribute(words[i], attribute)

\* C17: every exercise of a session returned by buildSessionQueue pairs a
\* word with a format the word structurally supports and whose id is not
\* deprecated; if no such pair exists buildSessionQueue throws.
C17_OnlySupportedPairs ==
  SessionBuilt =>
    /\ ~returned.threw =>
         \A n \in DOMAIN returned.session :
           StructurallySupported(returned.session[n].wordId,
                                 returned.session[n].formatId)
    /\ (\A wordId \in WordIds, formatId \in FormatIds :
          ~StructurallySupported(wordId, formatId)) => returned.threw

\* a full session is returned from a catalog in which some word does not
\* support some active format
C17_Witness ==
  /\ SessionReturned
  /\ Len(returned.session) = returned.target
  /\ \E wordId \in {pair[1] : pair \in ValidPairs}, formatId \in FormatIds :
       ~StructurallySupported(wordId, formatId)

\* the formats of the exercises of the session
FormatsIn(session) == {session[n].formatId : n \in DOMAIN session}

\* C18: every session returned by buildSessionQueue uses at least three
\* distinct formats whenever at least three active formats have valid pairs
\* in the catalog.
C18_ThreeFormats ==
  (SessionReturned /\ Cardinality({pair[2] : pair \in ValidPairs}) >= 3) =>
    Cardinality(FormatsIn(returned.session)) >= 3

----------------------------------------------------------------------------
(* Properties of pickDistractorIds *)

\* pickDistractorIds was called
Picked == returned.op = "pickDistractorIds"

IdsOf(ids) == {ids[k] : k \in DOMAIN ids}

\* the attribute an answer type shows
AnswerAttribute(answerType) ==
  IF answerType = "letter" THEN "initialLetter" ELSE answerType

\* the id is of a word of the catalog other than the target that supports
\* the answer modality of the format and, for a letter prompt, has a valid
\* initial letter other than the letter of the target
PassesFilters(id, word, format) ==
  /\ id # word.id
  /\ \E i \in DOMAIN words :
       /\ words[i].id = id
       /\ HasAttribute(words[i], AnswerAttribute(format.answerType))
       /\ format.promptType = "letter" =>
            /\ normalizeLetter(words[i].initialLetter) # ""
            /\ normalizeLetter(words[i].initialLetter) #
                 normalizeLetter(word.initialLetter)

\* the preferred candidates of the call that pass the filters
ValidPreferred ==
  {id \in IdsOf(returned.word.distractorWordIds) :
     PassesFilters(id, returned.word, returned.format)}

\* C19: for a format whose answer is not a letter, when distractorWordIds
\* holds at least the desired number of candidates that pass the filters,
\* pickDistractorIds returns preferred candidates only; with exactly three
\* valid preferred candidates and desired count 3 it returns those three.
C19_PreferredOnly ==
  (/\ Picked
   /\ returned.format.answerType # "letter"
   /\ Cardinality(ValidPreferred) >= returned.desiredCount) =>
    /\ ~returned.threw
    /\ IdsOf(returned.ids) \subseteq ValidPreferred
    /\ (Cardinality(ValidPreferred) = 3 /\ returned.desiredCount = 3) =>
         IdsOf(returned.ids) = ValidPreferred

\* three distractors are asked for, exactly three preferred ids pass the
\* filters, and a word that is not preferred passes them too
C19_Witness ==
  /\ Picked
  /\ returned.desiredCount = 3
  /\ Cardinality(ValidPreferred) = 3
  /\ \E id \in WordIds \ IdsOf(returned.word.distractorWordIds) :
       PassesFilters(id, returned.word, returned.format)
  /\ IdsOf(returned.ids) = ValidPreferred

\* C20: every id returned by pickDistractorIds is a word of the catalog
\* other than the target, occurs once, supports the answer modality of the
\* format and, for a letter prompt, has a valid initial letter other than the
\* target's; the result has exactly desiredCount ids.
C20_ValidDistractors ==
  (Picked /\ ~returned.threw) =>
    /\ Len(returned.ids) = returned.desiredCount
    /\ \A k \in DOMAIN returned.ids :
         /\ returned.ids[k] \in WordIds
         /\ PassesFilters(returned.ids[k], returned.word, returned.format)
    /\ \A k, l \in DOMAIN returned.ids :
         k # l => returned.ids[k] # returned.ids[l]

\* for a letter prompt two distractors are returned, one of them from the
\* fallback, while the preferred ids hold the target itself, an id of no
\* word and a word with the target's letter
C20_Witness ==
  /\ Picked
  /\ ~returned.threw
  /\ returned.format.promptType = "letter"
  /\ returned.desiredCount = 2
  /\ returned.word.id \in IdsOf(returned.word.distractorWordIds)
  /\ IdsOf(returned.word.distractorWordIds) \ WordIds # {}
  /\ \E id \in IdsOf(returned.word.distractorWordIds) \cap WordIds :
       normalizeLetter(returned.word.initialLetter) =
         normalizeLetter(
           (CHOOSE w \in IdsOf(words) : w.id = id).initialLetter)
  /\ IdsOf(returned.ids) \ IdsOf(returned.word.distractorWordIds) # {}

\* the words outside the preferred ids that pass the filters
ValidFallback ==
  {id \in WordIds : PassesFilters(id, returned.word, returned.format)}
    \ ValidPreferred

\* C22: when the preferred distractors do not suffice and the word has more
\* valid fallback candidates than are needed, every valid fallback candidate
\* is among the distractors of some outcome of the call: the result is not
\* determined by the order of the catalog.
C22_EveryCandidateCanBeDrawn ==
  (/\ Picked
   /\ ~returned.threw
   /\ Cardinality(ValidPreferred) < returned.desiredCount
   /\ Cardinality(ValidFallback)
        > returned.desiredCount - Cardinality(ValidPreferred)) =>
    \A id \in ValidFallback :
      \E outcome \in pickDistractorIdsOutcomes(returned.word, returned.format,
                                               returned.desiredCount) :
        id \in IdsOf(outcome.ids)

----------------------------------------------------------------------------
(* Properties of a session start that fails *)

\* the word of the catalog with the id
WordById(wordId) == CHOOSE w \in IdsOf(words) : w.id = wordId

\* number of words of the catalog that pass the filters of pickDistractorIds
ValidDistractorCount(word, format) ==
  Cardinality({id \in WordIds : PassesFilters(id, word, format)})

\* the Start click failed because pickDistractorIds threw
StartFailedOnDistractors(call) ==
  /\ call.op = "handleStartSession"
  /\ call.cause = "distractors"

\* C21: pickDistractorIds fails exactly when fewer valid distractor
\* candidates exist in the catalog than the desired count (option count - 1,
\* above 0); when it fails for a selected pair, the session start fails as a
\* whole: no partial session is stored, state.queue and the card on display
\* keep their values; and every card of a session that did start has as
\* many valid candidates as it needs.
C21_StartFailsAsAWhole ==
  [][/\ (returned' # returned /\ StartFailedOnDistractors(returned')) =>
          /\ returned'.pickThrew
          /\ returned'.optionCount - 1 > 0
          /\ ValidDistractorCount(returned'.word, returned'.format)
               < returned'.optionCount - 1
          /\ queue' = queue
          /\ currentExercise' = currentExercise
          /\ sessionPlanLength' = sessionPlanLength
          /\ visible' = visible
     /\ ("start" \in visible /\ "session" \in visible') =>
          \A exercise \in IdsOf(queue') \cup currentExercise' :
            FormatById(exercise.formatId).answerType # "letter" =>
              ValidDistractorCount(WordById(exercise.wordId),
                                   FormatById(exercise.formatId))
                >= exercise.optionCount - 1
    ]_vars

\* after practice the Start click failed: a card of three options has a
\* single valid distractor in the catalog
C21_Witness ==
  /\ StartFailedOnDistractors(returned)
  /\ history # <<>>
  /\ returned.optionCount = 3
  /\ ValidDistractorCount(returned.word, returned.format) = 1
  /\ queue = <<>>
  /\ "start" \in visible

----------------------------------------------------------------------------
(* Properties of buildLetterOptions *)

\* buildLetterOptions was called and returned options
LettersBuilt == returned.op = "buildLetterOptions" /\ ~returned.threw

\* the letters of the options are distinct, one option is the target letter
\* and is the only one marked correct
LettersWellFormed(options, targetLetter) ==
  /\ \A a, b \in DOMAIN options :
       a # b => options[a].letterValue # options[b].letterValue
  /\ \E a \in DOMAIN options : options[a].letterValue = targetLetter
  /\ \A a \in DOMAIN options :
       options[a].isCorrect <=> options[a].letterValue = targetLetter

----------------------------------------------------------------------------
(* Properties of the control panel operations *)

\* C24: after markWordAsMastered(w) the floor of w is 4 and, for every format
\* in state.formats, the tuple has a performance record with at least 4
\* attempts and an option state of level 4, whatever the tuple was before.
C24_MarkRaisesFloorAndLevels ==
  [][\A i \in DOMAIN words :
       markWordAsMastered(words[i].id) =>
         /\ words[i].id \in DOMAIN wordOptionFloor'
         /\ wordOptionFloor'[words[i].id] = 4
         /\ \A j \in DOMAIN formats :
              /\ <<words[i].id, formats[j].id>> \in DOMAIN performanceMap'
              /\ performanceMap'[<<words[i].id, formats[j].id>>].attempts >= 4
              /\ <<words[i].id, formats[j].id>> \in DOMAIN optionStateMap'
              /\ optionStateMap'[<<words[i].id, formats[j].id>>].level = 4
    ]_vars

\* a word has been marked of which one tuple had more than 4 attempts and
\* another had none
C24_Witness ==
  /\ panelClicks > 0
  /\ \E i \in DOMAIN words :
       /\ MapGet(wordOptionFloor, words[i].id) = Some(4)
       /\ \A j \in DOMAIN formats :
            /\ <<words[i].id, formats[j].id>> \in DOMAIN performanceMap
            /\ performanceMap[<<words[i].id, formats[j].id>>].attempts >= 4
            /\ MapGet(optionStateMap, <<words[i].id, formats[j].id>>) =
                 Some([createDefaultOptionState EXCEPT !.level = 4])
       /\ \E j \in DOMAIN formats :
            performanceMap[<<words[i].id, formats[j].id>>].recent = <<>>
       /\ \E j \in DOMAIN formats :
            performanceMap[<<words[i].id, formats[j].id>>].attempts > 4


\* C25: immediately after markWordAsMastered(w), isTupleMastered is true for
\* the performance record of every format in state.formats, tuples without
\* attempts before the call included.
C25_MarkedTuplesAreMastered ==
  [][\A i \in DOMAIN words :
       markWordAsMastered(words[i].id) =>
         \A j \in DOMAIN formats :
           isTupleMastered(
             MapGet(performanceMap', <<words[i].id, formats[j].id>>))
    ]_vars


\* the entries of the log that are not of the word
EntriesOfOthers(log, wordId) ==
  SelectSeq(log, LAMBDA entry : entry.wordId # wordId)

\* the records of the map for the tuples of the other words
RecordsOfOthers(map, wordId) ==
  [key \in {k \in DOMAIN map : k[1] # wordId} |-> map[key]]

\* C26: after resetWordProgress(w) the log has no entry of w, no performance
\* record and no option state is left for any (w, format of state.formats),
\* the floor of w is 1 and the next buildSessionQueue puts w in the new
\* bucket; the entries, records, option states and floors of the other words
\* are unchanged.
C26_ResetClearsOnlyTheWord ==
  [][\A i \in DOMAIN words :
       resetWordProgress(words[i].id) =>
         /\ \A n \in DOMAIN history' : history'[n].wordId # words[i].id
         /\ \A j \in DOMAIN formats :
              /\ <<words[i].id, formats[j].id>> \notin DOMAIN performanceMap'
              /\ <<words[i].id, formats[j].id>> \notin DOMAIN optionStateMap'
         /\ MapGet(wordOptionFloor', words[i].id) = Some(1)
         /\ words[i].id \in wordBuckets'.newSet
         /\ EntriesOfOthers(history', words[i].id) =
              EntriesOfOthers(history, words[i].id)
         /\ RecordsOfOthers(performanceMap', words[i].id) =
              RecordsOfOthers(performanceMap, words[i].id)
         /\ RecordsOfOthers(optionStateMap', words[i].id) =
              RecordsOfOthers(optionStateMap, words[i].id)
         /\ \A wordId \in (DOMAIN wordOptionFloor \cup DOMAIN wordOptionFloor')
                            \ {words[i].id} :
              MapGet(wordOptionFloor', wordId) = MapGet(wordOptionFloor, wordId)
    ]_vars

\* "ant" has been attempted on this page and then reset, while "bee" keeps
\* its entries, its records and its floor
C26_Witness ==
  /\ panelClicks > 0
  /\ <<"ant", "letter_to_image">> \in DOMAIN reviewSchedule
  /\ MapGet(wordOptionFloor, "ant") = Some(1)
  /\ \A key \in DOMAIN performanceMap : key[1] # "ant"
  /\ \A n \in DOMAIN history : history[n].wordId # "ant"
  /\ history # <<>>
  /\ <<"bee", "image_to_letter">> \in DOMAIN performanceMap
  /\ <<"bee", "image_to_letter">> \in DOMAIN optionStateMap
  /\ "bee" \in DOMAIN wordOptionFloor


----------------------------------------------------------------------------
(* Properties of the stored progress *)

\* init() has run to its end on this page
PageLoaded == Len(words) # 0

\* C27: in every state reached by recordAttempt, markWordAsMastered,
\* resetWordProgress and reloads, the live performance map is
\* buildPerformanceMap(state.history) and the live option-state map is the
\* replay of the option transition over state.history from the empty map.
C27_LiveMapsAreReplays ==
  PageLoaded =>
    /\ performanceMap = buildPerformanceMap(history)
    /\ optionStateMap = replayOptionStates(EmptyMap, history)


\* the entries of the stored log
StoredItems(storage) ==
  IF STORAGE_KEYS.HISTORY \notin DOMAIN storage THEN <<>>
  ELSE IF storage[STORAGE_KEYS.HISTORY].parses
  THEN storage[STORAGE_KEYS.HISTORY].json.items
  ELSE <<>>

\* C28: the stored log is append-only: a recordAttempt appends one entry at
\* its end and leaves the earlier ones as they are, and no step other than
\* resetWordProgress removes an entry of it; entries of deprecated formats
\* that were stored are still stored after loadHistory and further attempts.
C28_StoredLogIsAppendOnly ==
  [][/\ AttemptLoaded =>
          StoredItems(localStorage') =
            Append(StoredItems(localStorage), history'[Len(history')])
     /\ (~ \E i \in DOMAIN words : resetWordProgress(words[i].id)) =>
          IsPrefix(StoredItems(localStorage), StoredItems(localStorage'))
    ]_vars

\* the text stored under the key is missing or does not parse
Unreadable(key) == key \in DOMAIN localStorage => ~localStorage[key].parses

\* C29: for each stored key, loading a text that does not parse raises no
\* error and leaves the state of the key empty or at its default (empty log
\* and maps, session length not overridden); a missing key does the same.
C29_UnparsableLoadsAsDefault ==
  [][/\ initThrows => ~Unreadable(STORAGE_KEYS.HISTORY)
     /\ (init \/ initThrows) =>
          /\ Unreadable(STORAGE_KEYS.HISTORY) =>
               /\ history' = <<>>
               /\ performanceMap' = EmptyMap
               /\ optionStateMap' = EmptyMap
          /\ Unreadable(STORAGE_KEYS.WORD_OPTION_FLOOR) =>
               wordOptionFloor' = EmptyMap
          /\ Unreadable(REVIEW_STORAGE_KEY) => reviewSchedule' = EmptyMap
          /\ Unreadable(STORAGE_KEYS.SETTINGS) =>
               sessionLength' = DEFAULT_LENGTH
    ]_vars

\* a page has been loaded from texts none of which parses
C29_Witness ==
  /\ PageLoaded
  /\ \A key \in {STORAGE_KEYS.HISTORY, STORAGE_KEYS.WORD_OPTION_FLOOR,
                 REVIEW_STORAGE_KEY, STORAGE_KEYS.SETTINGS} :
       key \in DOMAIN localStorage /\ ~localStorage[key].parses
  /\ history = <<>>
  /\ performanceMap = EmptyMap
  /\ wordOptionFloor = EmptyMap
  /\ reviewSchedule = EmptyMap
  /\ sessionLength = DEFAULT_LENGTH


----------------------------------------------------------------------------
(* Properties of retries *)

\* the copy queueExerciseRetry queues of a card
RetryCopy(exercise) ==
  [exercise EXCEPT !.attempts = 0, !.hintUsed = FALSE, !.retryCount = @ + 1,
                   !.isRetry = TRUE]

\* the retry copies a session of CatalogThree can queue
RetryCards ==
  {[wordId |-> CatalogThree[i].id, formatId |-> formatId,
    optionCount |-> optionCount, isRetry |-> TRUE, attempts |-> 0,
    hintUsed |-> FALSE, retryCount |-> retryCount]
   : i \in DOMAIN CatalogThree,
     formatId \in {"letter_to_image", "image_to_letter"},
     optionCount \in 3..4, retryCount \in 1..MaxMistakes}

\* the positions of the retry copies in a queue
RetryPositions(q) == {p \in DOMAIN q : q[p].isRetry}

\* the step is the second incorrect answer on the card that is shown
SecondMiss ==
  /\ currentExercise # Undefined
  /\ The(currentExercise).attempts >= 1
  /\ ~The(currentExercise).hintUsed
  /\ handleAnswerSelection(FALSE)

\* the card is waiting in the queue of the session
Waiting(card) ==
  /\ "session" \in visible
  /\ \E p \in DOMAIN queue : queue[p] = card

\* C30: the second incorrect answer on a card inserts a retry copy of it
\* (isRetry, retryCount + 1, attempts 0, hintUsed false) at queue position
\* min(2, queue length); a retry copy is never behind the third position and
\* is never moved back, and as long as the session goes on it is presented:
\* so it is at the latest the third card presented after the failed one.
C30_RetryWithinThreeCards ==
  /\ [][SecondMiss =>
          /\ Len(queue') = Len(queue) + 1
          /\ queue'[Min(2, Len(queue)) + 1] = RetryCopy(The(currentExercise))
          /\ SubSeq(queue', 1, Min(2, Len(queue)))
               = SubSeq(queue, 1, Min(2, Len(queue)))
          /\ SubSeq(queue', Min(2, Len(queue)) + 2, Len(queue'))
               = SubSeq(queue, Min(2, Len(queue)) + 1, Len(queue))
       ]_vars
  /\ [](\A p \in RetryPositions(queue) : p <= 3)
  /\ [][\A p \in RetryPositions(queue) :
          \/ \E earlier \in 1..p :
               earlier <= Len(queue') /\ queue'[earlier] = queue[p]
          \/ currentExercise' = Some(queue[p])
          \/ "session" \notin visible'
       ]_vars
  /\ \A card \in RetryCards :
       Waiting(card) ~>
         (currentExercise = Some(card) \/ "session" \notin visible)

\* a retry copy is shown as the third card after the card that failed: the
\* two incorrect answers on its tuple are followed in the log by the answers
\* to two cards of other tuples
C30_Witness ==
  /\ "session" \in visible
  /\ currentExercise # Undefined
  /\ The(currentExercise).isRetry
  /\ Len(history) >= 4
  /\ \A n \in {Len(history) - 3, Len(history) - 2} :
       /\ history[n].result = "incorrect"
       /\ history[n].wordId = The(currentExercise).wordId
       /\ history[n].formatId = The(currentExercise).formatId
  /\ \A n \in {Len(history) - 1, Len(history)} :
       /\ history[n].result = "correct"
       /\ <<history[n].wordId, history[n].formatId>> #
            <<The(currentExercise).wordId, The(currentExercise).formatId>>
  /\ <<history[Len(history) - 1].wordId, history[Len(history) - 1].formatId>> #
       <<history[Len(history)].wordId, history[Len(history)].formatId>>

----------------------------------------------------------------------------
(* Properties of the cards of a session *)

\* the step is an answer that finishes the card that is shown: a correct
\* answer, or the second incorrect answer
Finishes(isCorrect) ==
  /\ currentExercise # Undefined
  /\ handleAnswerSelection(isCorrect)
  /\ isCorrect \/ The(currentExercise).attempts >= 1

\* C31: completedBaseExercises never exceeds sessionPlanLength; an answer
\* raises it by one when it finishes a card that is not a retry and leaves
\* it alone otherwise; no other step changes it but the start of a session,
\* which sets it to 0; and when the next-card timer shows the summary of a
\* session, which was then not ended early, it equals sessionPlanLength.
C31_BaseExercisesCounted ==
  /\ [](completedBaseExercises <= sessionPlanLength)
  /\ [][\A isCorrect \in BOOLEAN :
          handleAnswerSelection(isCorrect) =>
            completedBaseExercises' =
              completedBaseExercises +
                IF Finishes(isCorrect) /\ ~The(currentExercise).isRetry
                THEN 1 ELSE 0
       ]_vars
  /\ [][completedBaseExercises' # completedBaseExercises =>
          \/ \E isCorrect \in BOOLEAN : handleAnswerSelection(isCorrect)
          \/ /\ completedBaseExercises' = 0
             /\ handleStartSession \/ handleRestart
       ]_vars
  /\ [][(nextExerciseTimer /\ "session" \in visible /\ "summary" \in visible')
          => completedBaseExercises' = sessionPlanLength'
       ]_vars

\* the card that is shown has been finished: it was answered, and its last
\* answer was correct or was its second incorrect one
CardFinished ==
  /\ currentExercise # Undefined
  /\ The(currentExercise).attempts >= 1
  /\ \/ The(currentExercise).hintUsed
     \/ history[Len(history)].result = "correct"

\* the step takes the head of the queue of the running session and shows it
\* as the current card
CardTakenFromQueue ==
  /\ queue # <<>>
  /\ queue' = Tail(queue)
  /\ currentExercise' =
       Some([Head(queue) EXCEPT !.attempts = 0, !.hintUsed = FALSE])

\* C38: whatever the order of answer clicks, next-card timers, transition
\* timers, End Session and Restart, a card is taken from the queue of a
\* running session only when the card that is shown has been finished
\* (answered correctly or failed twice); so no timer left over from an
\* earlier session replaces a card that has not been finished.
C38_CardsReplaceFinishedCardsOnly ==
  [][CardTakenFromQueue => CardFinished]_vars

\* the exercises of the session that are still to be finished: the queue,
\* and the card that is shown unless it has been finished
Pending ==
  Len(queue) + IF currentExercise # Undefined /\ ~CardFinished THEN 1 ELSE 0

\* the summary has been reached
SummaryReached ==
  "summary" \in visible /\ queue = <<>> /\ currentExercise = Undefined

\* C39: the exercises still to be finished are never more than
\* sessionPlanLength; an answer that finishes a card takes one of them away
\* and, when it is the second incorrect answer, adds one retry; and when the
\* learner goes on answering and fails twice only a bounded number of times,
\* every session that is on reaches the summary.
C39_SessionsTerminate ==
  /\ [](Pending <= sessionPlanLength)
  /\ [][\A isCorrect \in BOOLEAN :
          Finishes(isCorrect) =>
            Pending' = Pending - IF isCorrect THEN 1 ELSE 0
       ]_vars
  /\ ("session" \in visible) ~> SummaryReached

----------------------------------------------------------------------------
(* Properties of the streak *)

\* the length of the run of equal results a non-empty sequence ends with
TrailingRun(results) ==
  CHOOSE k \in 1..Len(results) :
    /\ \A i \in (Len(results) - k + 1)..Len(results) :
         results[i] = results[Len(results)]
    /\ k = Len(results) \/ results[Len(results) - k] # results[Len(results)]

\* +k after a closing run of k correct results, -k after one of k incorrect
SignedRun(results) ==
  IF results[Len(results)] = "correct" THEN TrailingRun(results)
  ELSE 0 - TrailingRun(results)

\* C35: after any sequence of recorded attempts, the streak of every tuple
\* with a record is +k when its results end with a maximal run of k >= 1
\* correct ones and -k when they end with a maximal run of k >= 1 incorrect
\* ones, in the live record as in the record rebuilt from the log; so the
\* magnitude is 1 again after every sign flip.
C35_StreakIsClosingRun ==
  \A key \in DOMAIN performanceMap :
    \E results \in {ResultsOf(history, key)} :
      /\ results # <<>>
      /\ performanceMap[key].streak = SignedRun(results)
      /\ buildPerformanceMap(history)[key].streak = SignedRun(results)

\* a tuple whose streak is 1 after a sign flip that followed a longer run,
\* and a tuple with a run of three after a flip
C35_Witness ==
  /\ \E key \in DOMAIN performanceMap :
       /\ ResultsOf(history, key) = <<"correct", "correct", "incorrect">>
       /\ performanceMap[key].streak = -1
  /\ \E key \in DOMAIN performanceMap :
       /\ Len(ResultsOf(history, key)) >= 5
       /\ SubSeq(ResultsOf(history, key), Len(ResultsOf(history, key)) - 3,
                 Len(ResultsOf(history, key)))
            = <<"incorrect", "correct", "correct", "correct">>
       /\ performanceMap[key].streak = 3

----------------------------------------------------------------------------
(* Properties of the option level *)

\* the option states a tuple can be in at level 2 or more
RaisedOptionStates ==
  [level : 2..4, successRun : 0..2, failureRun : 0..2]

\* the step records a correct answer on the tuple
CorrectAnswerOn(key) ==
  /\ Len(history') = Len(history) + 1
  /\ history'[Len(history')].result = "correct"
  /\ <<history'[Len(history')].wordId, history'[Len(history')].formatId>> = key

----------------------------------------------------------------------------
(* Properties of the floor of a word *)

\* the step renders a card with a single option
SingleOptionCardRendered ==
  /\ currentExercise' # Undefined
  /\ currentExercise' # currentExercise
  /\ The(currentExercise').attempts = 0
  /\ The(currentExercise').optionCount = 1

\* the step starts a session
SessionStarted == "session" \notin visible /\ "session" \in visible'

\* the exercises built by the session start of the step: the first one is on
\* display, the others are queued
ExercisesBuilt == <<The(currentExercise')>> \o queue'

\* C36: the step that renders a single-option card of a word leaves the floor
\* of the word at 2 or more; a floor of 2 or more stays so in every later
\* step, whatever is answered, unless the step is resetWordProgress of the
\* word; and every exercise that a session start builds for a word whose
\* floor is 2 or more has at least 2 options.
C36_TwoOptionsAfterSingleOptionCard ==
  [][/\ SingleOptionCardRendered =>
          FloorOf(wordOptionFloor', The(currentExercise').wordId) >= 2
     /\ \A wordId \in WordIds :
          (FloorOf(wordOptionFloor, wordId) >= 2
             /\ FloorOf(wordOptionFloor', wordId) < 2)
            => resetWordProgress(wordId)
     /\ SessionStarted =>
          \A n \in DOMAIN ExercisesBuilt :
            FloorOf(wordOptionFloor, ExercisesBuilt[n].wordId) >= 2
              => ExercisesBuilt[n].optionCount >= 2
    ]_vars

\* a later session shows a card with two options for a tuple that is still
\* at level 1: the single-option card of another format of its word had been
\* rendered before
C36_Witness ==
  /\ currentExercise # Undefined
  /\ The(currentExercise).optionCount = 2
  /\ LevelOf(<<The(currentExercise).wordId, The(currentExercise).formatId>>) = 1
  /\ FloorOf(wordOptionFloor, The(currentExercise).wordId) = 2

----------------------------------------------------------------------------
(* Properties of the words that wait to be introduced *)

\* the valid pairs of a word
TuplesOf(wordId) == {pair \in ValidPairs : pair[1] = wordId}

\* the words with an attempted format
PractisedWords == {pair[1] : pair \in ValidPairs} \ NewWords

\* attempted pairs with an incorrect answer in their record: their success
\* rate is below 1 and stays below 1 whatever is answered
ImperfectTuples ==
  {pair \in ValidPairs :
     /\ pair \in DOMAIN performanceMap
     /\ performanceMap[pair].correct < performanceMap[pair].attempts}

\* attempted pairs with correct answers only, fewer than MIN_ATTEMPTS of them:
\* not mastered, and with a success rate of 1 the last of the sorted
\* candidates
WaitingTuples ==
  {pair \in ValidPairs :
     /\ pair \in DOMAIN performanceMap
     /\ performanceMap[pair].attempts \in 1..(MIN_ATTEMPTS - 1)
     /\ performanceMap[pair].correct = performanceMap[pair].attempts}

\* a word is new, every practised word has no unseen pair, a waiting pair
\* and at least MAX_OCCURRENCES_PER_WORD imperfect pairs, and the capped
\* pass together with one overriding pass over the imperfect pairs fills the
\* session
Starved ==
  /\ Len(words) # 0
  /\ NewWords # {}
  /\ PractisedWords # {}
  /\ \A wordId \in PractisedWords :
       /\ \A pair \in TuplesOf(wordId) :
            pair \in DOMAIN performanceMap /\ performanceMap[pair].attempts # 0
       /\ TuplesOf(wordId) \cap WaitingTuples # {}
       /\ Cardinality(TuplesOf(wordId) \cap ImperfectTuples)
            >= MAX_OCCURRENCES_PER_WORD
  /\ TargetOf(Cardinality(ValidPairs))
       <= MAX_OCCURRENCES_PER_WORD * Cardinality(PractisedWords)
            + Cardinality(ImperfectTuples)

\* the cards of the session: the one that is shown and the ones in the queue
SessionCards ==
  (IF currentExercise = Undefined THEN <<>> ELSE <<The(currentExercise)>>)
    \o queue

\* a card of a word of the new bucket is shown or waits in the queue
NewWordCard ==
  \E n \in DOMAIN SessionCards : SessionCards[n].wordId \in NewWords

\* a starved state is never left by answers and session starts, and every
\* card of a session started in it is a card of an imperfect pair: no waiting
\* pair is attempted and no new word is introduced
StarvedForGood ==
  [][Starved =>
       /\ Starved'
       /\ ~NewWordCard'
       /\ \A n \in DOMAIN SessionCards' :
            <<SessionCards'[n].wordId, SessionCards'[n].formatId>>
              \in ImperfectTuples
    ]_vars

\* C32: new words are not starved: while the catalog has a word with no
\* attempted format, sessions in which every card is answered correctly lead
\* to a session with an exercise of a new word; so no state is reached that
\* such sessions never leave and in which no session has an exercise of a new
\* word (StarvedForGood: Starved is such a state).
C32_NewWordsNotStarved == ~Starved

----------------------------------------------------------------------------
(* Properties of the capped fill *)

\* the part of the returned session that the capped fill selected
CappedPart == SubSeq(returned.session, 1, returned.cappedLength)

\* the unmastered bucket gave the capped fill an exercise: it is taken first,
\* so its exercises open the session
UnmasteredContributed ==
  /\ returned.cappedLength > 0
  /\ returned.session[1].wordId \in returned.buckets.unmasteredSet

\* C33: in the capped fill of buildSessionQueue exercises of words of the new
\* bucket are selected only if the unmastered bucket is empty or contributed
\* no exercise; and when the unmastered bucket contributed an exercise and
\* the capped fill reached the target length, the session has no exercise of
\* a new word.
C33_NewWordsWaitForUnmastered ==
  SessionReturned =>
    /\ (\E n \in DOMAIN CappedPart :
          CappedPart[n].wordId \in returned.buckets.newSet)
         => (returned.buckets.unmasteredSet = {} \/ ~UnmasteredContributed)
    /\ (UnmasteredContributed /\ CappedFillSufficed)
         => NewWordsIn(returned.session) = {}

\* words wait in the new bucket, the unmastered bucket opened the session,
\* and the capped fill reached the target without an exercise of a new word
C33_Witness ==
  /\ SessionReturned
  /\ returned.buckets.newSet # {}
  /\ UnmasteredContributed
  /\ CappedFillSufficed
  /\ NewWordsIn(returned.session) = {}

----------------------------------------------------------------------------
(* Properties of the sorted candidates *)

\* the candidate was never attempted
Unseen(candidate) == candidate.num = -1

\* no candidate is followed by one with a smaller priority score: unseen
\* candidates (score -1) first, then ascending correct/attempts
AscendingScores(candidates) ==
  \A m, n \in DOMAIN candidates :
    m < n =>
      /\ Unseen(candidates[n]) => Unseen(candidates[m])
      /\ (~Unseen(candidates[m]) /\ ~Unseen(candidates[n])) =>
           candidates[m].num * candidates[n].den
             <= candidates[n].num * candidates[m].den

\* the candidates one pass of takeFromSet added to the selection
TakenInPass ==
  SubSeq(returned.after, Len(returned.before) + 1, Len(returned.after))

\* C34: whatever the random draws of the comparator, the sorted candidates of
\* buildSessionQueue have every unseen pair before every attempted pair and
\* the attempted pairs in non-decreasing correct/attempts (one of the orders
\* of sortedOrders); and the exercises one pass takes from one bucket are in
\* non-decreasing priority score.
C34_SortedByPriority ==
  /\ returned.op = "sort" =>
       /\ AscendingScores(returned.sorted)
       /\ returned.sorted \in sortedOrders(allExercises, DOMAIN allExercises)
  /\ returned.op = "takeFromSet" => AscendingScores(TakenInPass)

\* a pass took an unseen pair and attempted pairs of two different success
\* rates from candidates that had a tie
C34_Witness ==
  /\ returned.op = "takeFromSet"
  /\ Len(TakenInPass) >= 3
  /\ \E m, n \in DOMAIN TakenInPass :
       /\ Unseen(TakenInPass[m])
       /\ ~Unseen(TakenInPass[n])
  /\ \E m, n \in DOMAIN TakenInPass :
       /\ ~Unseen(TakenInPass[m])
       /\ TakenInPass[m].num * TakenInPass[n].den
            < TakenInPass[n].num * TakenInPass[m].den
  /\ \E m, n \in DOMAIN allExercises :
       /\ m # n
       /\ allExercises[m].num * allExercises[n].den
            = allExercises[n].num * allExercises[m].den

----------------------------------------------------------------------------
(* Properties of the options of an exercise *)

\* createExercise returned an exercise
ExerciseCreated == returned.op = "createExercise" /\ ~returned.threw

\* the option stands for the target of the exercise: its letter for a
\* letter answer, the word itself otherwise
IsTargetOption(option) ==
  IF returned.format.answerType = "letter"
  THEN option.letterValue = normalizeLetter(returned.word.initialLetter)
  ELSE option.optionId = returned.word.id

\* C40: every exercise createExercise produces has options with pairwise
\* distinct ids, exactly one of them flagged correct, and that one is the
\* target word (the target letter for a letter answer); the exercise records
\* the number of its options, which for an answer that is a word equals
\* getOptionCountForTuple of the tuple.
C40_OptionsOfAnExercise ==
  ExerciseCreated =>
    /\ \A a, b \in DOMAIN returned.options :
         a # b => returned.options[a].optionId # returned.options[b].optionId
    /\ Cardinality({a \in DOMAIN returned.options :
                      returned.options[a].isCorrect}) = 1
    /\ \A a \in DOMAIN returned.options :
         returned.options[a].isCorrect <=> IsTargetOption(returned.options[a])
    /\ returned.optionCount =
         createExercise(returned.word, returned.format).optionCount
    /\ returned.format.answerType # "letter" =>
         Len(returned.options) =
           getOptionCountForTuple(returned.word.id, returned.format.id)

\* an exercise with four options that are words, the target not the first of
\* them
C40_Witness ==
  /\ ExerciseCreated
  /\ returned.format.answerType # "letter"
  /\ Len(returned.options) = 4
  /\ ~returned.options[1].isCorrect

====
